---- MODULE Spec2Model ----
(***************************************************************************)
(* EcoScan: a client submits a product photo to a relay, the relay calls   *)
(* an external vision model and normalises its JSON reply, and the client  *)
(* gates the reply (unknown product / low confidence) before rendering it. *)
(*                                                                         *)
(* JavaScript values are records [kind, num, str]; a string is the         *)
(* sequence of its UTF-16 code units, each written as a one-element TLA+   *)
(* string (a lone surrogate is the unit "\\uD800").                        *)
(***************************************************************************)
EXTENDS Integers, Sequences, FiniteSets, TLC

(***************************************************************************)
(* Bounds of the model.                                                    *)
(***************************************************************************)
\* longest alternatives list a model reply carries
MaxAlts == 2

(***************************************************************************)
(* JavaScript values.                                                      *)
(***************************************************************************)
Undef == [kind |-> "undefined", num |-> 0, str |-> <<>>]
Null == [kind |-> "null", num |-> 0, str |-> <<>>]
NaN == [kind |-> "nan", num |-> 0, str |-> <<>>]
Obj == [kind |-> "object", num |-> 0, str |-> <<>>]
Num(n) == [kind |-> "number", num |-> n, str |-> <<>>]
Str(s) == [kind |-> "string", num |-> 0, str |-> s]

\* ToBoolean: undefined, null, NaN, 0 and "" are falsy, everything else truthy.
Truthy(v) ==
    CASE v.kind = "undefined" -> FALSE
      [] v.kind = "null" -> FALSE
      [] v.kind = "nan" -> FALSE
      [] v.kind = "number" -> v.num # 0
      [] v.kind = "string" -> v.str # <<>>
      [] OTHER -> TRUE

\* a || b
Or(a, b) == IF Truthy(a) THEN a ELSE b

Digits == <<"0", "1", "2", "3", "4", "5", "6", "7", "8", "9">>

IsDigit(c) == \E i \in 1..10 : Digits[i] = c

DigitValue(c) == (CHOOSE i \in 1..10 : Digits[i] = c) - 1

RECURSIVE DecimalValue(_)
DecimalValue(s) ==
    IF s = <<>> THEN 0
    ELSE 10 * DecimalValue(SubSeq(s, 1, Len(s) - 1)) + DigitValue(s[Len(s)])

\* StringToNumber on strings of this model's alphabet: "" is 0, a run of
\* decimal digits (with an optional leading minus) is its value, and a string
\* holding any other character is NaN.
StringToNumber(s) ==
    IF s = <<>> THEN Num(0)
    ELSE IF \A i \in 1..Len(s) : IsDigit(s[i]) THEN Num(DecimalValue(s))
    ELSE IF Len(s) > 1 /\ s[1] = "-" /\ \A i \in 2..Len(s) : IsDigit(s[i])
         THEN Num(0 - DecimalValue(Tail(s)))
    ELSE NaN

\* ToNumber
ToNumber(v) ==
    CASE v.kind = "number" -> v
      [] v.kind = "string" -> StringToNumber(v.str)
      [] v.kind = "null" -> Num(0)
      [] OTHER -> NaN

\* Math.max(a, b) and Math.min(a, b): NaN if either argument converts to NaN.
MathMax(a, b) ==
    LET x == ToNumber(a)
        y == ToNumber(b)
    IN IF x.kind = "nan" \/ y.kind = "nan" THEN NaN
       ELSE IF x.num >= y.num THEN x ELSE y

MathMin(a, b) ==
    LET x == ToNumber(a)
        y == ToNumber(b)
    IN IF x.kind = "nan" \/ y.kind = "nan" THEN NaN
       ELSE IF x.num <= y.num THEN x ELSE y

\* a < b on numbers after ToNumber; any comparison with NaN is false.
LessThan(a, b) ==
    LET x == ToNumber(a)
        y == ToNumber(b)
    IN x.kind = "number" /\ y.kind = "number" /\ x.num < y.num

RECURSIVE NatToString(_)
NatToString(n) ==
    IF n < 10 THEN <<Digits[n + 1]>>
    ELSE NatToString(n \div 10) \o <<Digits[(n % 10) + 1]>>

\* ToString, as a template literal `${v}` applies it.
ToStringJS(v) ==
    CASE v.kind = "string" -> v.str
      [] v.kind = "number" ->
            IF v.num < 0 THEN <<"-">> \o NatToString(0 - v.num) ELSE NatToString(v.num)
      [] v.kind = "undefined" -> <<"u", "n", "d", "e", "f", "i", "n", "e", "d">>
      [] v.kind = "null" -> <<"n", "u", "l", "l">>
      [] v.kind = "nan" -> <<"N", "a", "N">>
      [] OTHER -> <<"[object Object]">>

(***************************************************************************)
(* String operations.                                                      *)
(***************************************************************************)
UpperLetters ==
    <<"A", "B", "C", "D", "E", "F", "G", "H", "I", "J", "K", "L", "M",
      "N", "O", "P", "Q", "R", "S", "T", "U", "V", "W", "X", "Y", "Z">>

LowerLetters ==
    <<"a", "b", "c", "d", "e", "f", "g", "h", "i", "j", "k", "l", "m",
      "n", "o", "p", "q", "r", "s", "t", "u", "v", "w", "x", "y", "z">>

LowerChar(c) ==
    IF \E i \in 1..26 : UpperLetters[i] = c
    THEN LowerLetters[CHOOSE i \in 1..26 : UpperLetters[i] = c]
    ELSE c

\* String.prototype.toLowerCase
ToLowerCase(s) == [i \in 1..Len(s) |-> LowerChar(s[i])]

\* String.prototype.includes
Includes(s, needle) ==
    \E i \in 0..(Len(s) - Len(needle)) : SubSeq(s, i + 1, i + Len(needle)) = needle

\* \s of a regular expression, on this model's alphabet
IsWhitespace(c) == c \in {" ", "\t"}

\* s.replace(/\s+/g, sep): every maximal run of whitespace becomes sep
RECURSIVE ReplaceWhitespaceRuns(_, _)
ReplaceWhitespaceRuns(s, sep) ==
    IF s = <<>> THEN <<>>
    ELSE IF IsWhitespace(s[1])
         THEN IF Len(s) > 1 /\ IsWhitespace(s[2])
              THEN ReplaceWhitespaceRuns(Tail(s), sep)
              ELSE <<sep>> \o ReplaceWhitespaceRuns(Tail(s), sep)
    ELSE <<s[1]>> \o ReplaceWhitespaceRuns(Tail(s), sep)

LoneSurrogate == "\\uD800"

UnreservedMarks == {"-", "_", ".", "!", "~", "*", "'", "(", ")"}

IsUnreserved(c) ==
    \/ \E i \in 1..26 : UpperLetters[i] = c \/ LowerLetters[i] = c
    \/ IsDigit(c)
    \/ c \in UnreservedMarks

\* the percent-encoding of one code unit of this model's alphabet
EncodeChar(c) ==
    CASE IsUnreserved(c) -> c
      [] c = " " -> "%20"
      [] c = "\t" -> "%09"
      [] c = "+" -> "%2B"
      [] c = ":" -> "%3A"
      [] c = "/" -> "%2F"
      [] OTHER -> "%3F"

\* encodeURIComponent: throws URIError on a lone surrogate, otherwise leaves
\* the unreserved characters and percent-encodes the rest.
encodeURIComponent(s) ==
    IF \E i \in 1..Len(s) : s[i] = LoneSurrogate
    THEN [threw |-> TRUE, str |-> <<>>]
    ELSE [threw |-> FALSE, str |-> [i \in 1..Len(s) |-> EncodeChar(s[i])]]

(***************************************************************************)
(* Platform link generator (client/src/utils/platformLinks.ts).            *)
(***************************************************************************)
EcoQualifier ==
    <<" ", "e", "c", "o", " ", "f", "r", "i", "e", "n", "d", "l", "y", " ",
      "s", "u", "s", "t", "a", "i", "n", "a", "b", "l", "e">>

\* Each generator returns [threw, str]; a thrown URIError propagates.
generateFlipkartUrl(query) ==
    LET enc == encodeURIComponent(ReplaceWhitespaceRuns(ToLowerCase(query), " "))
    IN IF enc.threw THEN [threw |-> TRUE, str |-> <<>>]
       ELSE [threw |-> FALSE,
             str |-> <<"https://www.flipkart.com/search?q=">> \o enc.str
                     \o <<"&as=on&as-show=on&otracker=search">>]

generateAmazonIndiaUrl(query) ==
    LET enc == encodeURIComponent(ReplaceWhitespaceRuns(ToLowerCase(query), "+"))
    IN IF enc.threw THEN [threw |-> TRUE, str |-> <<>>]
       ELSE [threw |-> FALSE, str |-> <<"https://www.amazon.in/s?k=">> \o enc.str]

generateMeeshoUrl(query) ==
    LET enc == encodeURIComponent(ToLowerCase(query))
    IN IF enc.threw THEN [threw |-> TRUE, str |-> <<>>]
       ELSE [threw |-> FALSE,
             str |-> <<"https://www.meesho.com/search?q=">> \o enc.str
                     \o <<"&searchType=manual&searchIdentifier=text_search">>]

\* generatePlatformLinks(productName): [threw, links]
generatePlatformLinks(productName) ==
    LET ecoSearchQuery == ToStringJS(productName) \o EcoQualifier
        f == generateFlipkartUrl(ecoSearchQuery)
        a == generateAmazonIndiaUrl(ecoSearchQuery)
        m == generateMeeshoUrl(ecoSearchQuery)
    IN IF f.threw \/ a.threw \/ m.threw THEN [threw |-> TRUE, links |-> <<>>]
       ELSE [threw |-> FALSE,
             links |-> << [platform |-> "flipkart", url |-> f.str, displayName |-> "Flipkart"],
                          [platform |-> "amazon", url |-> a.str, displayName |-> "Amazon"],
                          [platform |-> "meesho", url |-> m.str, displayName |-> "Meesho"] >>]

(***************************************************************************)
(* Alternatives.  An entry of an alternatives list is a bare string (str), *)
(* an object with optional fields, or null.  platformLinks is              *)
(* [present, links]: an empty array is present (and truthy).               *)
(***************************************************************************)
NoLinks == [present |-> FALSE, links |-> <<>>]

StringAlt(s) ==
    [kind |-> "string", str |-> s, name |-> Undef, description |-> Undef,
     score |-> Undef, buyLink |-> Undef, platformLinks |-> NoLinks]

ObjectAlt(name, description, score, buyLink, platformLinks) ==
    [kind |-> "object", str |-> <<>>, name |-> name, description |-> description,
     score |-> score, buyLink |-> buyLink, platformLinks |-> platformLinks]

NullAlt ==
    [kind |-> "null", str |-> <<>>, name |-> Undef, description |-> Undef,
     score |-> Undef, buyLink |-> Undef, platformLinks |-> NoLinks]

\* ResultCard.parseAlternative(alt): [threw, alt].  typeof null is 'object',
\* so a null entry reaches alt.platformLinks and throws a TypeError.
parseAlternative(alt) ==
    IF alt.kind = "null" THEN [threw |-> TRUE, alt |-> NullAlt]
    ELSE IF alt.kind = "object"
    THEN IF ~alt.platformLinks.present
         THEN LET g == generatePlatformLinks(alt.name)
              IN IF g.threw THEN [threw |-> TRUE, alt |-> NullAlt]
                 ELSE [threw |-> FALSE,
                       alt |-> [alt EXCEPT !.platformLinks =
                                    [present |-> TRUE, links |-> g.links]]]
         ELSE [threw |-> FALSE, alt |-> alt]
    ELSE LET g == generatePlatformLinks(Str(alt.str))
         IN IF g.threw THEN [threw |-> TRUE, alt |-> NullAlt]
            ELSE [threw |-> FALSE,
                  alt |-> ObjectAlt(Str(alt.str),
                            Str(<<"Eco-friendly alternative with better sustainability profile">>),
                            Undef, Undef, [present |-> TRUE, links |-> g.links])]

(***************************************************************************)
(* Relay helpers (enhanced relay: unnamed/part_002; simple relay:          *)
(* server/server.js).                                                      *)
(***************************************************************************)
\* The request body's image: its JavaScript type, and for a string the parts
\* of the data-URL envelope the format check reads, and what sharp finds in
\* the decoded bytes.
Image(type, mime, base64Marker, decodable, blurry, tooSmall, tooLarge, overBudget) ==
    [type |-> type, mime |-> mime, base64Marker |-> base64Marker,
     decodable |-> decodable, blurry |-> blurry, tooSmall |-> tooSmall,
     tooLarge |-> tooLarge, overBudget |-> overBudget]

SupportedMimeSubtypes == {"jpeg", "jpg", "png", "gif", "webp"}

\* !image: undefined and "" are falsy
ImageMissing(img) == img.type \in {"undefined", "emptyString"}

\* the format check with the pattern of the prefix-stripping expression,
\* data:image/\w+;base64, which accepts any subtype
validateImageFormat_AnySubtype(img) ==
    /\ ~ImageMissing(img)
    /\ img.type = "string"
    /\ img.base64Marker

\* validateImageFormat: a non-empty string that starts with
\* data:image/<jpeg|jpg|png|gif|webp>;base64,
validateImageFormat(img) ==
    /\ ~ImageMissing(img)
    /\ img.type = "string"
    /\ img.mime \in SupportedMimeSubtypes
    /\ img.base64Marker

BlurConfidence == 50
PoorConfidenceCap == 60
GoodConfidence == 90
UnknownConfidence == 75

NoReport ==
    [quality |-> "none", confidence |-> 0, warnings |-> <<>>, metadata |-> FALSE]

Min(a, b) == IF a <= b THEN a ELSE b

\* the report of the try block, for an image sharp can read
EstimatedReport(img) ==
    LET q1 == IF img.blurry THEN "blur" ELSE "good"
        c1 == IF img.blurry THEN BlurConfidence ELSE GoodConfidence
        w1 == IF img.blurry
              THEN <<"Image appears blurry. Please upload a clearer photo.">>
              ELSE <<>>
        q2 == IF img.tooSmall THEN "poor" ELSE q1
        c2 == IF img.tooSmall THEN Min(c1, PoorConfidenceCap) ELSE c1
        w2 == IF img.tooSmall
              THEN w1 \o <<"Image resolution is too low. Use a higher quality photo.">>
              ELSE w1
        w3 == IF img.tooLarge
              THEN w2 \o <<"Image will be compressed for processing.">>
              ELSE w2
    IN [quality |-> q2, confidence |-> c2, warnings |-> w3, metadata |-> TRUE]

\* the estimator reporting a failure of sharp as an unreadable, blurry image
analyzeImageQuality_FailureAsBlur(img) ==
    IF ~img.decodable
    THEN [quality |-> "blur", confidence |-> 0,
          warnings |-> <<"Could not analyze image quality">>, metadata |-> FALSE]
    ELSE EstimatedReport(img)

\* analyzeImageQuality: never throws; a failure of sharp gives the 'unknown' report.
analyzeImageQuality(img) ==
    IF ~img.decodable
    THEN [quality |-> "unknown", confidence |-> UnknownConfidence,
          warnings |-> <<"Could not analyze image quality">>, metadata |-> FALSE]
    ELSE EstimatedReport(img)

QualityGateThreshold == 40

\* the hard gate without its confidence test
QualityTooPoor_BlurAlone(iq) == iq.quality = "blur"

\* the route's hard gate on the quality report
QualityTooPoor(iq) == iq.quality = "blur" /\ iq.confidence < QualityGateThreshold

\* compressAndOptimizeImage: the original string when it is within budget or
\* when sharp throws, otherwise a re-encoded JPEG data URL.
compressAndOptimizeImage(img) ==
    IF ~img.decodable THEN "original"
    ELSE IF ~img.overBudget THEN "original"
    ELSE "reencoded"

(***************************************************************************)
(* The model's parsed reply.  kind is the JSON type of the whole reply;    *)
(* a field the reply does not carry is Undef.  A list field is             *)
(* [kind, items] with kind "undefined", "array" or "other".                *)
(***************************************************************************)
NoList == [kind |-> "undefined", items |-> <<>>]
NotAList == [kind |-> "other", items |-> <<>>]
List(items) == [kind |-> "array", items |-> items]

IsArray(l) == l.kind = "array"

Reply(kind, productName, score, confidence, imageQuality, ecoLabels, text, alternatives, reason) ==
    [kind |-> kind, productName |-> productName, sustainabilityScore |-> score,
     confidence |-> confidence, imageQuality |-> imageQuality, ecoLabels |-> ecoLabels,
     recyclability |-> text, carbonFootprint |-> text, waterFootprint |-> text,
     materialComposition |-> text, lifespan |-> text, energyProduction |-> text,
     alternatives |-> alternatives, reason |-> reason]

NoWarnings == [present |-> FALSE, items |-> <<>>]

NoMetadata ==
    [present |-> FALSE, imageQuality |-> "none", confidence |-> Undef, warnings |-> <<>>]

\* a ProductAnalysis record as a relay sends it
Analysis(r, warnings, metadata) ==
    [productName |-> r.productName, sustainabilityScore |-> r.sustainabilityScore,
     confidence |-> r.confidence, imageQuality |-> r.imageQuality,
     ecoLabels |-> r.ecoLabels, recyclability |-> r.recyclability,
     carbonFootprint |-> r.carbonFootprint, waterFootprint |-> r.waterFootprint,
     materialComposition |-> r.materialComposition, lifespan |-> r.lifespan,
     energyProduction |-> r.energyProduction, alternatives |-> r.alternatives,
     reason |-> r.reason, warnings |-> warnings, metadata |-> metadata]

NoAnalysis == Analysis(Reply("none", Undef, Undef, Undef, Undef, NoList, Undef, NoList, Undef),
                       NoWarnings, NoMetadata)

Threw == [threw |-> TRUE, value |-> NoAnalysis]
Returned(a) == [threw |-> FALSE, value |-> a]

(***************************************************************************)
(* String literals of the relays that later code reads character by        *)
(* character (product and alternative names).                              *)
(***************************************************************************)
UnknownProductName ==
    <<"U", "n", "k", "n", "o", "w", "n", " ", "P", "r", "o", "d", "u", "c",
      "t">>

AlternativeProductName ==
    <<"A", "l", "t", "e", "r", "n", "a", "t", "i", "v", "e", " ", "P", "r",
      "o", "d", "u", "c", "t">>

EcoProductQuery ==
    <<"e", "c", "o", " ", "p", "r", "o", "d", "u", "c", "t">>

LocalAlternativeName ==
    <<"L", "o", "c", "a", "l", "l", "y", " ", "m", "a", "n", "u", "f", "a",
      "c", "t", "u", "r", "e", "d", " ", "a", "l", "t", "e", "r", "n", "a",
      "t", "i", "v", "e">>

OrganicAlternativeName ==
    <<"C", "e", "r", "t", "i", "f", "i", "e", "d", " ", "o", "r", "g", "a",
      "n", "i", "c", " ", "o", "p", "t", "i", "o", "n">>

RefurbishedAlternativeName ==
    <<"R", "e", "f", "u", "r", "b", "i", "s", "h", "e", "d", "/", "S", "e",
      "c", "o", "n", "d", "-", "h", "a", "n", "d">>

SeekLocalAlternative ==
    <<"S", "e", "e", "k", " ", "l", "o", "c", "a", "l", "l", "y", " ", "m",
      "a", "n", "u", "f", "a", "c", "t", "u", "r", "e", "d", " ", "a", "l",
      "t", "e", "r", "n", "a", "t", "i", "v", "e", "s">>

SecondHandAlternative ==
    <<"C", "o", "n", "s", "i", "d", "e", "r", " ", "s", "e", "c", "o", "n",
      "d", "-", "h", "a", "n", "d", " ", "o", "r", " ", "r", "e", "f", "u",
      "r", "b", "i", "s", "h", "e", "d", " ", "o", "p", "t", "i", "o", "n",
      "s">>

EcoCertifiedAlternative ==
    <<"L", "o", "o", "k", " ", "f", "o", "r", " ", "p", "r", "o", "d", "u",
      "c", "t", "s", " ", "w", "i", "t", "h", " ", "e", "c", "o", "-", "c",
      "e", "r", "t", "i", "f", "i", "c", "a", "t", "i", "o", "n", "s">>

MinimalPackagingAlternative ==
    <<"C", "h", "o", "o", "s", "e", " ", "p", "r", "o", "d", "u", "c", "t",
      "s", " ", "w", "i", "t", "h", " ", "m", "i", "n", "i", "m", "a", "l",
      " ", "p", "a", "c", "k", "a", "g", "i", "n", "g">>

(***************************************************************************)
(* validateAndEnhanceAnalysis (enhanced relay).                            *)
(***************************************************************************)
DefaultScore == 50
MinScore == 0
MaxScore == 100
AltScoreThreshold == 60
ObjectAltDefaultScore == 80
RandomScoreBase == 75

\* Math.min(Math.max(analysis.sustainabilityScore || 50, 0), 100)
EnhancedScore(raw) ==
    MathMin(MathMax(Or(raw, Num(DefaultScore)), Num(MinScore)), Num(MaxScore))

\* analysis.confidence || imageQualityData.confidence
EnhancedConfidence(raw, iq) == Or(raw, Num(iq.confidence))

AmazonSearch(encoded, suffix) ==
    Str(<<"https://www.amazon.com/s?k=">> \o encoded \o <<suffix>>)

\* One pass of the alternatives.map callback: [threw, alt].  rnd is the value
\* of Math.floor(Math.random() * 20) for this entry.
EnhanceAlternative(alt, score, rnd) ==
    IF alt.kind = "string"
    THEN LET enc == encodeURIComponent(alt.str)
         IN IF enc.threw THEN [threw |-> TRUE, alt |-> NullAlt]
            ELSE [threw |-> FALSE,
                  alt |-> ObjectAlt(Str(alt.str),
                            Str(<<"Eco-friendly alternative with better sustainability">>),
                            IF LessThan(score, Num(AltScoreThreshold))
                            THEN Num(rnd + RandomScoreBase) ELSE Undef,
                            AmazonSearch(enc.str, "+eco+friendly+sustainable"),
                            NoLinks)]
    ELSE IF alt.kind = "null" THEN [threw |-> TRUE, alt |-> NullAlt]
    ELSE LET enc == encodeURIComponent(ToStringJS(Or(alt.name, Str(EcoProductQuery))))
             name == Or(alt.name, Str(AlternativeProductName))
             description == Or(alt.description, Str(<<"Eco-friendly alternative">>))
             altScore == Or(alt.score,
                            IF LessThan(score, Num(AltScoreThreshold))
                            THEN Num(ObjectAltDefaultScore) ELSE Undef)
         IN IF Truthy(alt.buyLink)
            THEN [threw |-> FALSE,
                  alt |-> ObjectAlt(name, description, altScore, alt.buyLink, NoLinks)]
            ELSE IF enc.threw THEN [threw |-> TRUE, alt |-> NullAlt]
            ELSE [threw |-> FALSE,
                  alt |-> ObjectAlt(name, description, altScore,
                                    AmazonSearch(enc.str, "+sustainable"), NoLinks)]

DefaultAlternatives ==
    << ObjectAlt(Str(LocalAlternativeName),
                 Str(<<"Support local businesses and reduce transportation emissions">>),
                 Num(85), Str(<<"https://www.amazon.com/s?k=local+eco+friendly+products">>),
                 NoLinks),
       ObjectAlt(Str(OrganicAlternativeName),
                 Str(<<"Look for products with organic certifications">>),
                 Num(88), Str(<<"https://www.amazon.com/s?k=certified+organic+sustainable">>),
                 NoLinks),
       ObjectAlt(Str(RefurbishedAlternativeName),
                 Str(<<"Extend product lifecycle by choosing pre-owned">>),
                 Num(92), Str(<<"https://www.amazon.com/s?k=refurbished+renewed">>),
                 NoLinks) >>

\* the alternatives of the enhanced record: [threw, list]
EnhancedAlternatives(alternatives, score, rnd) ==
    IF IsArray(alternatives) /\ Len(alternatives.items) > 0
    THEN LET mapped == [i \in 1..Len(alternatives.items) |->
                            EnhanceAlternative(alternatives.items[i], score, rnd[i])]
         IN IF \E i \in 1..Len(mapped) : mapped[i].threw
            THEN [threw |-> TRUE, list |-> NoList]
            ELSE [threw |-> FALSE,
                  list |-> List([i \in 1..Len(mapped) |-> mapped[i].alt])]
    ELSE [threw |-> FALSE, list |-> List(DefaultAlternatives)]

\* validateAndEnhanceAnalysis(analysis, imageQualityData): [threw, value].
\* A null reply throws on the first property read; a primitive or an array
\* reads every field as undefined.
validateAndEnhanceAnalysis(analysis, iq, rnd) ==
    IF analysis.kind = "null" THEN Threw
    ELSE LET score == EnhancedScore(analysis.sustainabilityScore)
             alts == EnhancedAlternatives(analysis.alternatives, score, rnd)
             enhanced ==
                [productName |-> Or(analysis.productName, Str(UnknownProductName)),
                 sustainabilityScore |-> score,
                 confidence |-> EnhancedConfidence(analysis.confidence, iq),
                 imageQuality |-> Or(analysis.imageQuality, Str(<<iq.quality>>)),
                 ecoLabels |-> IF IsArray(analysis.ecoLabels)
                               THEN analysis.ecoLabels ELSE List(<<>>),
                 recyclability |-> Or(analysis.recyclability,
                                      Str(<<"Recyclability information not available">>)),
                 carbonFootprint |-> Or(analysis.carbonFootprint,
                                        Str(<<"Moderate carbon impact estimated">>)),
                 waterFootprint |-> Or(analysis.waterFootprint,
                                       Str(<<"Moderate water usage estimated">>)),
                 materialComposition |-> Or(analysis.materialComposition,
                                            Str(<<"Mixed materials detected">>)),
                 lifespan |-> Or(analysis.lifespan,
                                 Str(<<"Average product lifespan expected">>)),
                 energyProduction |-> Or(analysis.energyProduction, Str(<<"Not applicable">>)),
                 alternatives |-> alts.list,
                 reason |-> Undef,
                 warnings |-> IF Len(iq.warnings) > 0
                              THEN [present |-> TRUE, items |-> iq.warnings]
                              ELSE NoWarnings,
                 metadata |-> NoMetadata]
         IN IF alts.threw THEN Threw ELSE Returned(enhanced)

(***************************************************************************)
(* validateAnalysisResponse (simple relay).                                *)
(***************************************************************************)
RequiredFieldMissing(analysis) ==
    \/ analysis.productName = Undef
    \/ analysis.sustainabilityScore = Undef
    \/ analysis.ecoLabels = NoList
    \/ analysis.recyclability = Undef
    \/ analysis.carbonFootprint = Undef
    \/ analysis.waterFootprint = Undef
    \/ analysis.materialComposition = Undef
    \/ analysis.lifespan = Undef
    \/ analysis.energyProduction = Undef
    \/ analysis.alternatives = NoList

IfAbsent(v, default) == IF v = Undef THEN default ELSE v

SimpleDefaultAlternatives ==
    << StringAlt(SeekLocalAlternative),
       StringAlt(SecondHandAlternative),
       StringAlt(EcoCertifiedAlternative),
       StringAlt(MinimalPackagingAlternative) >>

\* validateAnalysisResponse(analysis): [threw, value].  `field in analysis`
\* throws a TypeError on null and on a primitive.  With a field missing the
\* record is the defaults overwritten by the spread of the reply, so every
\* field the reply carries keeps its raw value; with none missing the reply
\* itself is patched and returned.
validateAnalysisResponse(analysis) ==
    IF analysis.kind \in {"null", "primitive"} THEN Threw
    ELSE IF RequiredFieldMissing(analysis)
    THEN Returned(
           [productName |-> IfAbsent(analysis.productName, Str(UnknownProductName)),
            sustainabilityScore |-> IfAbsent(analysis.sustainabilityScore, Num(DefaultScore)),
            confidence |-> analysis.confidence,
            imageQuality |-> analysis.imageQuality,
            ecoLabels |-> IF analysis.ecoLabels = NoList THEN List(<<>>)
                          ELSE analysis.ecoLabels,
            recyclability |-> IfAbsent(analysis.recyclability,
                                Str(<<"Recyclability information not available from image">>)),
            carbonFootprint |-> IfAbsent(analysis.carbonFootprint,
                                         Str(<<"Moderate carbon impact estimated">>)),
            waterFootprint |-> IfAbsent(analysis.waterFootprint,
                                        Str(<<"Moderate water usage estimated">>)),
            materialComposition |-> IfAbsent(analysis.materialComposition,
                                             Str(<<"Mixed materials detected">>)),
            lifespan |-> IfAbsent(analysis.lifespan,
                                  Str(<<"Average product lifespan expected">>)),
            energyProduction |-> IfAbsent(analysis.energyProduction, Str(<<"Not applicable">>)),
            alternatives |-> IF analysis.alternatives = NoList
                             THEN List(SimpleDefaultAlternatives)
                             ELSE analysis.alternatives,
            reason |-> analysis.reason,
            warnings |-> NoWarnings,
            metadata |-> NoMetadata])
    ELSE Returned(
           [Analysis(analysis, NoWarnings, NoMetadata) EXCEPT
              !.sustainabilityScore =
                  MathMin(MathMax(analysis.sustainabilityScore, Num(MinScore)), Num(MaxScore)),
              !.ecoLabels = IF IsArray(analysis.ecoLabels)
                            THEN analysis.ecoLabels ELSE List(<<>>),
              !.alternatives = IF IsArray(analysis.alternatives)
                               THEN analysis.alternatives ELSE List(<<>>)])

(***************************************************************************)
(* parseAIResponse (both relays).  The reply text is a sequence of tokens: *)
(* the characters "{" and "}", the members of an object (the text between  *)
(* its outer braces, inner braces balanced), a JSON value that is not an   *)
(* object (null, a number, a string, an array of scalars), and a stretch   *)
(* of prose that holds no brace and is no JSON.                            *)
(***************************************************************************)
NoReply == Reply("none", Undef, Undef, Undef, Undef, NoList, Undef, NoList, Undef)

OpenBrace == [t |-> "{", r |-> NoReply]
CloseBrace == [t |-> "}", r |-> NoReply]
Prose == [t |-> "prose", r |-> NoReply]
Members(r) == [t |-> "members", r |-> r]
Scalar(r) == [t |-> "scalar", r |-> r]

\* the object {} : every field reads as undefined
EmptyObject == Reply("object", Undef, Undef, Undef, Undef, NoList, Undef, NoList, Undef)

\* JSON.stringify of a parsed reply
Serialize(r) ==
    IF r.kind = "object"
    THEN IF r = EmptyObject THEN <<OpenBrace, CloseBrace>>
         ELSE <<OpenBrace, Members(r), CloseBrace>>
    ELSE <<Scalar(r)>>

ParseThrew == [threw |-> TRUE, value |-> NoReply]

\* JSON.parse: the whole text must be one JSON value
JSONparse(text) ==
    IF Len(text) = 1 /\ text[1].t = "scalar" THEN [threw |-> FALSE, value |-> text[1].r]
    ELSE IF text = <<OpenBrace, CloseBrace>> THEN [threw |-> FALSE, value |-> EmptyObject]
    ELSE IF Len(text) = 3 /\ text[1] = OpenBrace /\ text[2].t = "members"
            /\ text[3] = CloseBrace
    THEN [threw |-> FALSE, value |-> text[2].r]
    ELSE ParseThrew

\* aiResponse.match(/\{[\s\S]*\}/): from the first "{" to the last "}" after
\* it; <<>> when there is no match
MatchBraces(text) ==
    LET opens == { i \in 1..Len(text) : text[i] = OpenBrace }
    IN IF opens = {} THEN <<>>
       ELSE LET first == CHOOSE i \in opens : \A k \in opens : i <= k
                closes == { j \in first..Len(text) : text[j] = CloseBrace }
            IN IF closes = {} THEN <<>>
               ELSE LET last == CHOOSE j \in closes : \A k \in closes : k <= j
                    IN SubSeq(text, first, last)

\* parseAIResponse(aiResponse): [threw, value]
parseAIResponse(text) ==
    LET strict == JSONparse(text)
    IN IF ~strict.threw THEN strict
       ELSE LET jsonMatch == MatchBraces(text)
            IN IF jsonMatch # <<>> THEN JSONparse(jsonMatch) ELSE ParseThrew

(***************************************************************************)
(* The analyze route's responses.                                          *)
(***************************************************************************)
Response(status, error, success, analysis, imageQuality, rejected) ==
    [status |-> status, error |-> error, success |-> success, analysis |-> analysis,
     imageQuality |-> imageQuality, rejected |-> rejected]

NoResponse == Response(0, "", FALSE, NoAnalysis, NoReport, NoReport)

ErrorResponse(status, error) == Response(status, error, FALSE, NoAnalysis, NoReport, NoReport)

\* what the route's try block throws: an axios error with a provider status,
\* an axios error with a network code, or any other exception
ProviderError(status) == [status |-> status, code |-> ""]
NetworkError(code) == [status |-> 0, code |-> code]
OtherException == [status |-> 0, code |-> ""]

\* the catch block without the 429 branch
EnhancedCatch_NoRateLimit(err) ==
    IF err.status \in {401, 403} THEN ErrorResponse(500, "API authentication failed")
    ELSE IF err.status = 400 THEN ErrorResponse(400, "Invalid request")
    ELSE IF err.status = 413 THEN ErrorResponse(413, "Image too large")
    ELSE IF err.code \in {"ECONNABORTED", "ETIMEDOUT"} THEN ErrorResponse(504, "Request timeout")
    ELSE IF err.code \in {"ENOTFOUND", "ECONNREFUSED"}
         THEN ErrorResponse(503, "Service unavailable")
    ELSE ErrorResponse(500, "Analysis failed")

\* the catch block of the enhanced relay's route
EnhancedCatch(err) ==
    IF err.status \in {401, 403} THEN ErrorResponse(500, "API authentication failed")
    ELSE IF err.status = 429 THEN ErrorResponse(429, "Rate limit exceeded")
    ELSE IF err.status = 400 THEN ErrorResponse(400, "Invalid request")
    ELSE IF err.status = 413 THEN ErrorResponse(413, "Image too large")
    ELSE IF err.code \in {"ECONNABORTED", "ETIMEDOUT"} THEN ErrorResponse(504, "Request timeout")
    ELSE IF err.code \in {"ENOTFOUND", "ECONNREFUSED"}
         THEN ErrorResponse(503, "Service unavailable")
    ELSE ErrorResponse(500, "Analysis failed")

\* the catch block of the simple relay's route
SimpleCatch(err) ==
    IF err.status \in {401, 403}
    THEN ErrorResponse(500, "API authentication failed. Please check server configuration.")
    ELSE IF err.status = 429
    THEN ErrorResponse(429, "Rate limit exceeded. Please try again in a few moments.")
    ELSE IF err.status = 400
    THEN ErrorResponse(400, "Invalid request. Please try with a different image.")
    ELSE IF err.status = 413
    THEN ErrorResponse(413, "Image too large. Please use an image under 5MB.")
    ELSE IF err.code \in {"ECONNABORTED", "ETIMEDOUT"}
    THEN ErrorResponse(504, "Request timeout. The AI service is taking too long to respond. Please try again.")
    ELSE IF err.code \in {"ENOTFOUND", "ECONNREFUSED"}
    THEN ErrorResponse(503, "Unable to connect to AI service. Please try again later.")
    ELSE ErrorResponse(500, "Failed to analyze sustainability. Please try again.")

\* the enhanced route's first checks, up to the await of analyzeImageQuality:
\* the response sent, or NoResponse when the request passes
EnhancedValidation(img, keyConfigured) ==
    IF ImageMissing(img) THEN ErrorResponse(400, "Image is required")
    ELSE IF ~keyConfigured THEN ErrorResponse(500, "Server configuration error")
    ELSE IF ~validateImageFormat(img) THEN ErrorResponse(400, "Invalid image format")
    ELSE NoResponse

\* the simple route's checks, up to the external call
SimpleValidation(img, keyConfigured) ==
    IF ImageMissing(img) THEN ErrorResponse(400, "Image is required")
    ELSE IF ~keyConfigured
    THEN ErrorResponse(500, "Server configuration error. API key not found.")
    ELSE IF ~validateImageFormat(img)
    THEN ErrorResponse(400, "Invalid image format. Please upload a valid image (JPEG, PNG, GIF, or WebP).")
    ELSE NoResponse

\* the enhanced route after the model's reply was parsed
EnhancedSuccess(parsed, iq, rnd) ==
    LET v == validateAndEnhanceAnalysis(parsed, iq, rnd)
    IN IF v.threw THEN EnhancedCatch(OtherException)
       ELSE Response(200, "", TRUE,
                     [v.value EXCEPT !.metadata =
                         [present |-> TRUE, imageQuality |-> iq.quality,
                          confidence |-> v.value.confidence, warnings |-> iq.warnings]],
                     iq, NoReport)

\* the simple route after the model's reply was parsed
SimpleSuccess(parsed) ==
    LET v == validateAnalysisResponse(parsed)
    IN IF v.threw THEN SimpleCatch(OtherException)
       ELSE Response(200, "", FALSE, v.value, NoReport, NoReport)

(***************************************************************************)
(* The client (client/src/api/sustainabilityApi.ts).                       *)
(***************************************************************************)
\* JSON.stringify writes NaN as null; the client reads what JSON carried.
FromJson(v) == IF v.kind = "nan" THEN Null ELSE v

UnknownNeedle == <<"u", "n", "k", "n", "o", "w", "n">>

UnidentifiedProduct ==
    <<"u", "n", "i", "d", "e", "n", "t", "i", "f", "i", "e", "d", " ",
      "p", "r", "o", "d", "u", "c", "t">>

Unclear == <<"u", "n", "c", "l", "e", "a", "r">>

LowConfidenceThreshold == 50

UnknownProductFallbackMessage ==
    Str(<<"Unable to identify the product from the image. Please ensure the image shows clear product labels, branding, or packaging.">>)

UnknownProductSuggestions ==
    << "Take a photo with better lighting",
       "Ensure product labels and text are visible and in focus",
       "Position the product against a plain, uncluttered background",
       "Try capturing the product from a different angle showing brand/label",
       "Make sure the image is not blurry or distorted",
       "Include the full product packaging in the frame" >>

LowConfidenceMessage ==
    Str(<<"Low confidence in product identification. The image quality or content is insufficient for accurate analysis.">>)

LowConfidenceSuggestions ==
    << "Upload a clearer, higher resolution image",
       "Ensure the product is well-lit and in focus",
       "Make sure product labels and branding are visible",
       "Try a different angle that shows the product more clearly" >>

Outcome(kind, message, suggestions, data) ==
    [kind |-> kind, message |-> message, suggestions |-> suggestions, data |-> data]

NoOutcome == Outcome("none", Undef, <<>>, NoAnalysis)

\* the first condition without the lower-casing
IsUnknownProductName_CaseSensitive(name) ==
    \/ Includes(name, UnknownNeedle)
    \/ name = UnidentifiedProduct
    \/ name = Unclear

\* the first condition of the gate, on a string product name
IsUnknownProductName(name) ==
    LET lower == ToLowerCase(name)
    IN \/ Includes(lower, UnknownNeedle)
       \/ lower = UnidentifiedProduct
       \/ lower = Unclear

\* the second condition: confidence && confidence < 50
IsLowConfidence(confidence) ==
    Truthy(confidence) /\ LessThan(confidence, Num(LowConfidenceThreshold))

\* the gate with the confidence check placed before the unknown-product check
ClientGate_ConfidenceFirst(analysis) ==
    LET productName == FromJson(analysis.productName)
        confidence == FromJson(analysis.confidence)
    IN IF productName.kind # "string"
       THEN Outcome("Failure",
                    Str(<<"Failed to analyze sustainability. Please try again.">>),
                    <<>>, NoAnalysis)
       ELSE IF IsLowConfidence(confidence)
       THEN Outcome("LowConfidenceError", LowConfidenceMessage,
                    LowConfidenceSuggestions, NoAnalysis)
       ELSE IF IsUnknownProductName(productName.str)
       THEN Outcome("UnknownProductError",
                    Or(FromJson(analysis.reason), UnknownProductFallbackMessage),
                    UnknownProductSuggestions, NoAnalysis)
       ELSE Outcome("Result", Undef, <<>>, analysis)

\* the gate of analyzeSustainability on the analysis of a success response.
\* Calling toLowerCase on a product name that is no string throws a
\* TypeError, which the catch block turns into the generic failure.
ClientGate(analysis) ==
    LET productName == FromJson(analysis.productName)
        confidence == FromJson(analysis.confidence)
    IN IF productName.kind # "string"
       THEN Outcome("Failure",
                    Str(<<"Failed to analyze sustainability. Please try again.">>),
                    <<>>, NoAnalysis)
       ELSE IF IsUnknownProductName(productName.str)
       THEN Outcome("UnknownProductError",
                    Or(FromJson(analysis.reason), UnknownProductFallbackMessage),
                    UnknownProductSuggestions, NoAnalysis)
       ELSE IF IsLowConfidence(confidence)
       THEN Outcome("LowConfidenceError", LowConfidenceMessage,
                    LowConfidenceSuggestions, NoAnalysis)
       ELSE Outcome("Result", Undef, <<>>, analysis)

\* analyzeSustainability on the relay's response: an error status makes
\* axios throw, and the catch block maps it to an Error with a message
analyzeSustainability(resp) ==
    IF resp.status = 200 THEN ClientGate(resp.analysis)
    ELSE IF resp.status = 429
    THEN Outcome("Failure", Str(<<"Rate limit exceeded. Please try again in a few minutes.">>),
                 <<>>, NoAnalysis)
    ELSE IF resp.status = 413
    THEN Outcome("Failure", Str(<<"Image too large. Please use an image under 5MB.">>),
                 <<>>, NoAnalysis)
    ELSE IF resp.status = 504
    THEN Outcome("Failure",
                 Str(<<"Request timeout. The server is taking too long to respond. Please try again.">>),
                 <<>>, NoAnalysis)
    ELSE Outcome("Failure", Str(<<resp.error>>), <<>>, NoAnalysis)

\* ResultCard's result.alternatives.map(parseAlternative): [crashed, alternatives]
RenderAlternatives(alternatives) ==
    IF ~IsArray(alternatives) THEN [crashed |-> TRUE, alternatives |-> <<>>]
    ELSE LET parsed == [i \in 1..Len(alternatives.items) |->
                            parseAlternative(alternatives.items[i])]
         IN IF \E i \in 1..Len(parsed) : parsed[i].threw
            THEN [crashed |-> TRUE, alternatives |-> <<>>]
            ELSE [crashed |-> FALSE,
                  alternatives |-> [i \in 1..Len(parsed) |-> parsed[i].alt]]

(***************************************************************************)
(* Inputs: the requests a relay receives and the replies the external      *)
(* model gives.                                                            *)
(***************************************************************************)
InvalidImages ==
    { Image("undefined", "png", FALSE, FALSE, FALSE, FALSE, FALSE, FALSE),
      Image("emptyString", "png", FALSE, FALSE, FALSE, FALSE, FALSE, FALSE),
      Image("number", "png", FALSE, FALSE, FALSE, FALSE, FALSE, FALSE),
      Image("string", "bmp", TRUE, FALSE, FALSE, FALSE, FALSE, FALSE),
      Image("string", "png", FALSE, FALSE, FALSE, FALSE, FALSE, FALSE) }

ValidImages ==
    { Image("string", "png", TRUE, FALSE, FALSE, FALSE, FALSE, FALSE) }
    \cup { Image("string", "png", TRUE, TRUE, b, s, l, o) :
             b \in BOOLEAN, s \in BOOLEAN, l \in BOOLEAN, o \in BOOLEAN }

Images == InvalidImages \cup ValidImages

MugName == <<"M", "u", "g">>
UnknownName == <<"U", "n", "k", "n", "o", "w", "n">>
UnclearName == <<"U", "N", "C", "L", "E", "A", "R">>
UnidentifiedName ==
    <<"U", "n", "i", "d", "e", "n", "t", "i", "f", "i", "e", "d", " ",
      "P", "r", "o", "d", "u", "c", "t">>
SteelBottleName ==
    <<"S", "t", "e", "e", "l", " ", "B", "o", "t", "t", "l", "e">>
BambooBrushName ==
    <<"B", "a", "m", "b", "o", "o", " ", "\t", "B", "r", "u", "s", "h">>
BrokenEmojiName == <<"C", "u", "p", LoneSurrogate>>

ProductNames ==
    { Undef, Str(<<>>), Str(MugName), Str(UnknownName), Str(UnclearName),
      Str(UnidentifiedName), Num(5) }

Scores ==
    { Undef, Num(-20), Num(0), Num(55), Num(72), Num(100), Num(150),
      Str(<<"h", "i", "g", "h">>) }

Confidences == { Undef, Num(-5), Num(0), Num(49), Num(50), Num(150) }

Reasons == { Undef, Str(<<"Image is too blurry">>) }

SuppliedLinks ==
    [present |-> TRUE,
     links |-> << [platform |-> "amazon", url |-> <<"https://shop.example/dp/B00">>,
                   displayName |-> "Amazon"] >>]

AltEntries ==
    { StringAlt(SteelBottleName),
      StringAlt(BrokenEmojiName),
      ObjectAlt(Str(BambooBrushName), Str(<<"Biodegradable handle">>), Num(88), Undef, NoLinks),
      ObjectAlt(Str(BambooBrushName), Undef, Undef, Str(<<"https://shop.example/dp/B00">>),
                NoLinks),
      ObjectAlt(Str(BambooBrushName), Undef, Undef, Undef, SuppliedLinks),
      ObjectAlt(Undef, Undef, Undef, Undef, NoLinks),
      NullAlt }

AltLists ==
    UNION { [1..n -> AltEntries] : n \in 0..MaxAlts }

AlternativesFields == { NoList, NotAList } \cup { List(l) : l \in AltLists }

SomeText == Str(<<"As described by the model">>)
SomeLabels == List(<<"FSC">>)

\* replies that vary the alternatives and the side of the score threshold
AlternativesReplies ==
    { Reply("object", Str(MugName), s, Num(80), Undef, SomeLabels, SomeText, a, Undef) :
        s \in { Num(55), Num(72) }, a \in AlternativesFields }

\* replies that vary the score
ScoreReplies ==
    { Reply("object", Str(MugName), s, Num(80), Undef, SomeLabels, SomeText,
            List(<<StringAlt(SteelBottleName)>>), Undef) : s \in Scores }

\* replies that vary what the client gate reads
GateReplies ==
    { Reply("object", n, Num(72), c, Undef, SomeLabels, SomeText,
            List(<<StringAlt(SteelBottleName)>>), r) :
        n \in ProductNames, c \in Confidences, r \in Reasons }

\* replies with the descriptive fields missing or of the wrong type, and
\* replies that are not a JSON object
ShapeReplies ==
    { Reply("object", Str(MugName), Num(72), Num(80), q, l, t, NoList, Undef) :
        q \in { Undef, Str(<<"blur">>) }, l \in { NoList, NotAList }, t \in { Undef, Num(7) } }
    \cup { Reply(k, Undef, Undef, Undef, Undef, NoList, Undef, NoList, Undef) :
             k \in { "null", "primitive", "array" } }

\* replies with the descriptive fields missing and a score or a list that
\* needs repair
SpreadReplies ==
    { Reply("object", Str(MugName), s, Num(80), Undef, l, Undef,
            List(<<StringAlt(SteelBottleName)>>), Undef) :
        s \in { Num(-20), Num(150) }, l \in { SomeLabels, NotAList } }

Replies ==
    AlternativesReplies \cup ScoreReplies \cup GateReplies \cup ShapeReplies \cup SpreadReplies

\* two replies for the texts that hold more than the JSON
MugReply ==
    Reply("object", Str(MugName), Num(72), Num(80), Undef, SomeLabels, SomeText,
          List(<<StringAlt(SteelBottleName)>>), Undef)
BottleReply ==
    Reply("object", Str(SteelBottleName), Num(55), Num(80), Undef, SomeLabels, SomeText,
          List(<<StringAlt(SteelBottleName)>>), Undef)

\* reply texts that are not one JSON value: prose only, an object inside
\* prose, an object followed by a closing brace, prose that uses braces
\* before the object, two objects, an unclosed object
MixedTexts ==
    { <<Prose>>,
      <<Prose, OpenBrace, Members(MugReply), CloseBrace, Prose>>,
      <<OpenBrace, Members(MugReply), CloseBrace, Prose, CloseBrace>>,
      <<Prose, OpenBrace, Prose, CloseBrace, OpenBrace, Members(MugReply), CloseBrace>>,
      <<OpenBrace, Members(MugReply), CloseBrace, Prose,
        OpenBrace, Members(BottleReply), CloseBrace>>,
      <<Prose, OpenBrace, Members(MugReply)>> }

\* response.data.choices[0].message.content
AiResponses == { Serialize(r) : r \in Replies } \cup MixedTexts

\* values of Math.floor(Math.random() * 20) the model draws
RandomFloors == { 0, 19 }

ProviderStatuses == { 400, 401, 403, 413, 429, 500 }
NetworkCodes == { "ECONNABORTED", "ETIMEDOUT", "ENOTFOUND", "ECONNREFUSED", "ERR_OTHER" }

\* an axios error that carries the provider's status and axios' own code
AxiosError(status, code) == [status |-> status, code |-> code]

AiErrors ==
    { ProviderError(st) : st \in ProviderStatuses }
    \cup { NetworkError(c) : c \in NetworkCodes }
    \cup { AxiosError(401, "ERR_BAD_REQUEST"), AxiosError(502, "ERR_BAD_RESPONSE") }

NoError == [status |-> 0, code |-> "none"]

(***************************************************************************)
(* State.                                                                  *)
(***************************************************************************)
VARIABLES
    relay,              \* which relay is deployed: "enhanced" or "simple"
    apiKeyConfigured,   \* whether MISTRAL_API_KEY is set
    pc,                 \* where the current request is
    image,              \* req.body.image of the current request
    imageQualityData,   \* the route's quality report, NoReport before it exists
    optimizedImage,     \* "none" before compressAndOptimizeImage returned
    aiCalls,            \* external AI calls made for the current request
    aiResponse,         \* the text of the external model's reply
    reply,              \* the parsed reply of the external model
    aiError,            \* what the external call rejected with, NoError when it did not
    response,           \* what the route sent
    outcome,            \* how the client's analyzeSustainability ended
    rendered            \* ResultCard's alternatives

relayVars ==
    <<relay, apiKeyConfigured, pc, image, imageQualityData, optimizedImage, aiCalls,
      aiResponse, reply, aiError, response, outcome, rendered>>

(***************************************************************************)
(* State of the client's App and UploadForm components.                    *)
(***************************************************************************)
VARIABLES
    loading,            \* App: an analysis is running
    toast,              \* App: the toast shown, NoToast for null
    result,             \* App: the analysis shown, NoAnalysis for null
    resultImage,        \* App: result.imageUrl: "none", "sample", or an object URL "live" or "revoked"
    error,              \* App: the ApiError shown, NoApiError for null
    inflight,           \* the calls of handleSubmit / handleSampleClick that await
    lastOutcome,        \* how the last analyzeSustainability call ended
    selectedFile,       \* UploadForm: the chosen file, NoFile for null
    preview,            \* UploadForm: whether an object URL is set as preview
    uploadError,        \* UploadForm: its own error message, "" for null
    showCamera,         \* UploadForm: the camera view is shown
    streamRef,          \* UploadForm: streamRef.current: "null", "live" or "stopped"
    pendingCamera,      \* getUserMedia calls of the mounted form not yet settled
    orphanPending,      \* getUserMedia calls of unmounted forms not yet settled
    orphanLive,         \* live streams that no mounted form's streamRef holds
    pendingBlobs        \* canvas.toBlob callbacks of the mounted form not yet run

uiVars ==
    <<loading, toast, result, resultImage, error, inflight, lastOutcome, selectedFile, preview, uploadError,
      showCamera, streamRef, pendingCamera, orphanPending, orphanLive, pendingBlobs>>

VARIABLES
    compressPc,         \* compressAndOptimizeImage: "idle", "metadata", "loop" or "returned"
    compressInput,      \* the image it was called with and how sharp treats it
    quality,            \* its local quality
    optimizedSize,      \* optimizedBuffer.length, in bytes
    passes,             \* passes of the while loop that completed
    lastQuality,        \* the quality of the last completed pass, 0 before it
    compressResult      \* "none", "original" or "reencoded"

compressVars ==
    <<compressPc, compressInput, quality, optimizedSize, passes, lastQuality, compressResult>>

vars == <<relayVars, uiVars, compressVars>>

\* a File: its size in bytes and whether its type starts with image/
File(size, isImage) == [size |-> size, isImage |-> isImage]
NoFile == File(0, FALSE)

\* an ApiError as App keeps it
ApiError(message, isUnknownProduct, suggestions) ==
    [present |-> TRUE, message |-> message, isUnknownProduct |-> isUnknownProduct,
     suggestions |-> suggestions]
NoApiError ==
    [present |-> FALSE, message |-> Undef, isUnknownProduct |-> FALSE, suggestions |-> <<>>]

\* App and a freshly mounted UploadForm
NoToast == [message |-> Undef, type |-> "none"]

Toast(message, type) == [message |-> message, type |-> type]

\* an image as compressAndOptimizeImage sees it: the decoded size in bytes,
\* the size sharp's JPEG encoder gives per quality, and the awaits that
\* throw (0: metadata, k: the k-th pass)
CompressInput(size, sizeAt, throwsAt) == [size |-> size, sizeAt |-> sizeAt, throwsAt |-> throwsAt]

NoCompressInput == CompressInput(0, <<>>, {})

CompressIdle ==
    /\ compressPc = "idle"
    /\ compressInput = NoCompressInput
    /\ quality = 0
    /\ optimizedSize = 0
    /\ passes = 0
    /\ lastQuality = 0
    /\ compressResult = "none"

UiStart ==
    /\ loading = FALSE
    /\ toast = NoToast
    /\ result = NoAnalysis
    /\ resultImage = "none"
    /\ error = NoApiError
    /\ inflight = <<>>
    /\ lastOutcome = NoOutcome
    /\ selectedFile = NoFile
    /\ preview = FALSE
    /\ uploadError = ""
    /\ showCamera = FALSE
    /\ streamRef = "null"
    /\ pendingCamera = 0
    /\ orphanPending = 0
    /\ orphanLive = 0
    /\ pendingBlobs = 0

NoImage == Image("undefined", "png", FALSE, FALSE, FALSE, FALSE, FALSE, FALSE)
NoText == <<>>
NotRendered == [crashed |-> FALSE, alternatives |-> <<>>]

Init ==
    /\ relay \in {"enhanced", "simple"}
    /\ apiKeyConfigured \in BOOLEAN
    /\ pc = "idle"
    /\ image = NoImage
    /\ imageQualityData = NoReport
    /\ optimizedImage = "none"
    /\ aiCalls = 0
    /\ aiResponse = NoText
    /\ reply = NoReply
    /\ aiError = NoError
    /\ response = NoResponse
    /\ outcome = NoOutcome
    /\ rendered = NotRendered
    /\ UiStart
    /\ CompressIdle

\* enhanced route, from the request to the await of analyzeImageQuality
EnhancedReceive(img) ==
    /\ relay = "enhanced"
    /\ pc = "idle"
    /\ image' = img
    /\ LET v == EnhancedValidation(img, apiKeyConfigured)
       IN IF v # NoResponse
          THEN response' = v /\ pc' = "responded"
          ELSE response' = response /\ pc' = "quality"
    /\ UNCHANGED <<relay, apiKeyConfigured, aiError, aiResponse, imageQualityData, optimizedImage, aiCalls,
                   reply, outcome, rendered>>
    /\ UNCHANGED <<uiVars, compressVars>>

\* enhanced route: analyzeImageQuality resolves, the hard gate, and the start
\* of compressAndOptimizeImage
EnhancedQuality ==
    /\ relay = "enhanced"
    /\ pc = "quality"
    /\ LET iq == analyzeImageQuality(image)
       IN /\ imageQualityData' = iq
          /\ IF QualityTooPoor(iq)
             THEN /\ response' = Response(400, "Image quality too poor", FALSE,
                                          NoAnalysis, NoReport, iq)
                  /\ pc' = "responded"
             ELSE /\ response' = response
                  /\ pc' = "optimize"
    /\ UNCHANGED <<relay, apiKeyConfigured, aiError, aiResponse, image, optimizedImage, aiCalls, reply,
                   outcome, rendered>>
    /\ UNCHANGED <<uiVars, compressVars>>

\* enhanced route: compressAndOptimizeImage resolves and axios.post is called
EnhancedOptimize ==
    /\ relay = "enhanced"
    /\ pc = "optimize"
    /\ optimizedImage' = compressAndOptimizeImage(image)
    /\ aiCalls' = aiCalls + 1
    /\ pc' = "aiCall"
    /\ UNCHANGED <<relay, apiKeyConfigured, aiError, aiResponse, image, imageQualityData, reply, response,
                   outcome, rendered>>
    /\ UNCHANGED <<uiVars, compressVars>>

\* enhanced route: the external call resolves; parse, validate, respond
EnhancedAiReply(text, rnd) ==
    /\ relay = "enhanced"
    /\ pc = "aiCall"
    /\ aiResponse' = text
    /\ LET parsed == parseAIResponse(text)
       IN IF parsed.threw
          THEN reply' = NoReply /\ response' = EnhancedCatch(OtherException)
          ELSE /\ reply' = parsed.value
               /\ response' = EnhancedSuccess(parsed.value, imageQualityData, rnd)
    /\ pc' = "responded"
    /\ UNCHANGED <<relay, apiKeyConfigured, aiError, image, imageQualityData, optimizedImage,
                   aiCalls, outcome, rendered>>
    /\ UNCHANGED <<uiVars, compressVars>>

\* enhanced route: the external call rejects
EnhancedAiError(err) ==
    /\ relay = "enhanced"
    /\ pc = "aiCall"
    /\ aiError' = err
    /\ response' = EnhancedCatch(err)
    /\ pc' = "responded"
    /\ UNCHANGED <<relay, apiKeyConfigured, aiResponse, image, imageQualityData, optimizedImage,
                   aiCalls, reply, outcome, rendered>>
    /\ UNCHANGED <<uiVars, compressVars>>

\* simple route, from the request to the external call
SimpleReceive(img) ==
    /\ relay = "simple"
    /\ pc = "idle"
    /\ image' = img
    /\ LET v == SimpleValidation(img, apiKeyConfigured)
       IN IF v # NoResponse
          THEN response' = v /\ pc' = "responded" /\ aiCalls' = aiCalls
          ELSE response' = response /\ pc' = "aiCall" /\ aiCalls' = aiCalls + 1
    /\ UNCHANGED <<relay, apiKeyConfigured, aiError, aiResponse, imageQualityData, optimizedImage, reply,
                   outcome, rendered>>
    /\ UNCHANGED <<uiVars, compressVars>>

\* simple route: the external call resolves; parse, validate, respond
SimpleAiReply(text) ==
    /\ relay = "simple"
    /\ pc = "aiCall"
    /\ aiResponse' = text
    /\ LET parsed == parseAIResponse(text)
       IN IF parsed.threw
          THEN reply' = NoReply /\ response' = SimpleCatch(OtherException)
          ELSE reply' = parsed.value /\ response' = SimpleSuccess(parsed.value)
    /\ pc' = "responded"
    /\ UNCHANGED <<relay, apiKeyConfigured, aiError, image, imageQualityData, optimizedImage,
                   aiCalls, outcome, rendered>>
    /\ UNCHANGED <<uiVars, compressVars>>

\* simple route: the external call rejects
SimpleAiError(err) ==
    /\ relay = "simple"
    /\ pc = "aiCall"
    /\ aiError' = err
    /\ response' = SimpleCatch(err)
    /\ pc' = "responded"
    /\ UNCHANGED <<relay, apiKeyConfigured, aiResponse, image, imageQualityData, optimizedImage,
                   aiCalls, reply, outcome, rendered>>
    /\ UNCHANGED <<uiVars, compressVars>>

\* client: axios.post resolves or rejects and analyzeSustainability ends
ClientReceive ==
    /\ pc = "responded"
    /\ outcome' = analyzeSustainability(response)
    /\ pc' = "gated"
    /\ UNCHANGED <<relay, apiKeyConfigured, aiError, aiResponse, image, imageQualityData, optimizedImage,
                   aiCalls, reply, response, rendered>>
    /\ UNCHANGED <<uiVars, compressVars>>

\* client: ResultCard renders the alternatives of a result
RenderResult ==
    /\ pc = "gated"
    /\ outcome.kind = "Result"
    /\ rendered' = RenderAlternatives(outcome.data.alternatives)
    /\ pc' = "rendered"
    /\ UNCHANGED <<relay, apiKeyConfigured, aiError, aiResponse, image, imageQualityData, optimizedImage,
                   aiCalls, reply, response, outcome>>
    /\ UNCHANGED <<uiVars, compressVars>>

\* the request is over; the relay and the client are ready for the next one
NextRequest ==
    /\ \/ pc = "rendered"
       \/ pc = "gated" /\ outcome.kind # "Result"
    /\ pc' = "idle"
    /\ image' = NoImage
    /\ imageQualityData' = NoReport
    /\ optimizedImage' = "none"
    /\ aiCalls' = 0
    /\ aiResponse' = NoText
    /\ reply' = NoReply
    /\ aiError' = NoError
    /\ response' = NoResponse
    /\ outcome' = NoOutcome
    /\ rendered' = NotRendered
    /\ UNCHANGED <<relay, apiKeyConfigured>>
    /\ UNCHANGED <<uiVars, compressVars>>

Next ==
    \/ \E img \in Images : EnhancedReceive(img)
    \/ EnhancedQuality
    \/ EnhancedOptimize
    \/ \E text \in AiResponses, rnd \in [1..MaxAlts -> RandomFloors] :
          EnhancedAiReply(text, rnd)
    \/ \E err \in AiErrors : EnhancedAiError(err)
    \/ \E img \in Images : SimpleReceive(img)
    \/ \E text \in AiResponses : SimpleAiReply(text)
    \/ \E err \in AiErrors : SimpleAiError(err)
    \/ ClientReceive
    \/ RenderResult
    \/ NextRequest

Spec == Init /\ [][Next]_vars

(***************************************************************************)
(* The client's App and UploadForm (client/src/App.tsx,                    *)
(* client/src/components/UploadForm.tsx).  While no UploadForm is mounted  *)
(* the form's variables hold the state the next mount starts in.           *)
(***************************************************************************)
\* getUserMedia calls and streams that may be outstanding together
MaxCameraCalls == 2

\* canvas.toBlob callbacks that may be outstanding together
MaxBlobCalls == 1

\* 5 * 1024 * 1024 and 10 * 1024 * 1024
RequestSizeLimit == 5 * 1024 * 1024
PickSizeLimit == 10 * 1024 * 1024

\* the conditional rendering at the end of App
ViewOf(res, err) ==
    IF err.present /\ err.isUnknownProduct THEN "ErrorAnalysis"
    ELSE IF res = NoAnalysis THEN "UploadForm"
    ELSE "ResultCard"

View == ViewOf(result, error)

uiVarsButInflight ==
    <<loading, toast, result, resultImage, error, lastOutcome, selectedFile, preview, uploadError, showCamera,
      streamRef, pendingCamera, orphanPending, orphanLive, pendingBlobs>>

formVars ==
    <<selectedFile, preview, uploadError, showCamera, streamRef, pendingCamera,
      orphanPending, orphanLive, pendingBlobs>>

\* UploadForm unmounts: the effect's cleanup stops the tracks of the stream
\* streamRef holds; getUserMedia calls still pending outlive the form
FormUnmounts ==
    /\ orphanPending' = orphanPending + pendingCamera
    /\ orphanLive' = orphanLive
    /\ selectedFile' = NoFile
    /\ preview' = FALSE
    /\ uploadError' = ""
    /\ showCamera' = FALSE
    /\ streamRef' = "null"
    /\ pendingCamera' = 0
    /\ pendingBlobs' = 0

\* App sets result and error and renders again
AppRenders(res, img, err) ==
    /\ result' = res
    /\ resultImage' = img
    /\ error' = err
    /\ IF View = "UploadForm" /\ ViewOf(res, err) # "UploadForm"
       THEN FormUnmounts
       ELSE UNCHANGED formVars

\* stopCamera that hides the camera view and leaves the stream alone
stopCamera_HidesViewOnly(ref) == ref

\* stopCamera on streamRef.current: a held stream has its tracks stopped and
\* the ref is set to null
stopCamera(ref) == "null"

\* the cleanup of the [preview] effect, run when preview changes
AfterPreviewChange(ref) == IF ref = "live" THEN "stopped" ELSE ref

\* URL.revokeObjectURL(preview): a request that handleSubmit started with the
\* preview as its second argument now holds a revoked URL
RevokePreview(requests) ==
    IF ~preview THEN requests
    ELSE [j \in 1..Len(requests) |->
            IF requests[j].source = "form" THEN [requests[j] EXCEPT !.revoked = TRUE]
            ELSE requests[j]]

\* handleFileChange and handleDrop
SelectFile(f) ==
    /\ View = "UploadForm"
    /\ ~showCamera
    /\ IF f.isImage /\ f.size <= PickSizeLimit
       THEN /\ uploadError' = ""
            /\ selectedFile' = f
            /\ preview' = TRUE
            /\ streamRef' = AfterPreviewChange(streamRef)
            /\ inflight' = RevokePreview(inflight)
       ELSE /\ uploadError' = IF f.isImage THEN "File size must be less than 10MB"
                              ELSE "Please select a valid image file"
            /\ UNCHANGED <<selectedFile, preview, streamRef, inflight>>
    /\ UNCHANGED <<loading, toast, result, resultImage, error, lastOutcome, showCamera,
                   pendingCamera, orphanPending, orphanLive, pendingBlobs>>
    /\ UNCHANGED <<relayVars, compressVars>>

LiveStreams == orphanLive + (IF streamRef = "live" THEN 1 ELSE 0)

\* startCamera, up to the await of getUserMedia
StartCamera ==
    /\ View = "UploadForm"
    /\ ~showCamera
    /\ selectedFile = NoFile
    /\ ~loading
    /\ pendingCamera + orphanPending + LiveStreams < MaxCameraCalls
    /\ pendingCamera' = pendingCamera + 1
    /\ UNCHANGED <<loading, toast, result, resultImage, error, inflight, lastOutcome, selectedFile, preview,
                   uploadError, showCamera, streamRef, orphanPending, orphanLive,
                   pendingBlobs>>
    /\ UNCHANGED <<relayVars, compressVars>>

\* startCamera after getUserMedia resolved for the mounted form
CameraGranted ==
    /\ pendingCamera > 0
    /\ pendingCamera' = pendingCamera - 1
    /\ orphanLive' = orphanLive + (IF streamRef = "live" THEN 1 ELSE 0)
    /\ streamRef' = "live"
    /\ showCamera' = TRUE
    /\ uploadError' = ""
    /\ UNCHANGED <<loading, toast, result, resultImage, error, inflight, lastOutcome, selectedFile, preview,
                   orphanPending, pendingBlobs>>
    /\ UNCHANGED <<relayVars, compressVars>>

\* startCamera after getUserMedia rejected for the mounted form
CameraDenied ==
    /\ pendingCamera > 0
    /\ pendingCamera' = pendingCamera - 1
    /\ uploadError' =
          "Unable to access camera. Please check permissions or use file upload instead."
    /\ UNCHANGED <<loading, toast, result, resultImage, error, inflight, lastOutcome, selectedFile, preview,
                   showCamera, streamRef, orphanPending, orphanLive, pendingBlobs>>
    /\ UNCHANGED <<relayVars, compressVars>>

\* getUserMedia settles for a form that has unmounted: a granted stream is
\* stored in that form's streamRef, which nothing reads again
OrphanCameraSettles(granted) ==
    /\ orphanPending > 0
    /\ orphanPending' = orphanPending - 1
    /\ orphanLive' = IF granted THEN orphanLive + 1 ELSE orphanLive
    /\ UNCHANGED <<loading, toast, result, resultImage, error, inflight, lastOutcome, selectedFile, preview,
                   uploadError, showCamera, streamRef, pendingCamera, pendingBlobs>>
    /\ UNCHANGED <<relayVars, compressVars>>

\* stopCamera, from the Cancel button
CancelCamera ==
    /\ View = "UploadForm"
    /\ showCamera
    /\ streamRef' = stopCamera(streamRef)
    /\ showCamera' = FALSE
    /\ UNCHANGED <<loading, toast, result, resultImage, error, inflight, lastOutcome, selectedFile, preview,
                   uploadError, pendingCamera, orphanPending, orphanLive, pendingBlobs>>
    /\ UNCHANGED <<relayVars, compressVars>>

\* capturePhoto, up to the call of canvas.toBlob
CaptureClick ==
    /\ View = "UploadForm"
    /\ showCamera
    /\ pendingBlobs < MaxBlobCalls
    /\ pendingBlobs' = pendingBlobs + 1
    /\ UNCHANGED <<loading, toast, result, resultImage, error, inflight, lastOutcome, selectedFile, preview,
                   uploadError, showCamera, streamRef, pendingCamera, orphanPending,
                   orphanLive>>
    /\ UNCHANGED <<relayVars, compressVars>>

\* the callback of canvas.toBlob: with a blob it selects the photo and calls
\* stopCamera
BlobReady(blob) ==
    /\ pendingBlobs > 0
    /\ pendingBlobs' = pendingBlobs - 1
    /\ IF blob # NoFile
       THEN /\ selectedFile' = blob
            /\ preview' = TRUE
            /\ streamRef' = stopCamera(streamRef)
            /\ showCamera' = FALSE
            /\ inflight' = RevokePreview(inflight)
       ELSE UNCHANGED <<selectedFile, preview, streamRef, showCamera, inflight>>
    /\ UNCHANGED <<loading, toast, result, resultImage, error, lastOutcome, uploadError,
                   pendingCamera, orphanPending, orphanLive>>
    /\ UNCHANGED <<relayVars, compressVars>>

\* resetForm, with App's handleReset as onReset
ResetForm ==
    /\ View = "UploadForm"
    /\ ~showCamera
    /\ preview
    /\ selectedFile' = NoFile
    /\ preview' = FALSE
    /\ uploadError' = ""
    /\ streamRef' = stopCamera(streamRef)
    /\ showCamera' = FALSE
    /\ result' = NoAnalysis
    /\ resultImage' = "none"
    /\ error' = NoApiError
    /\ inflight' = RevokePreview(inflight)
    /\ UNCHANGED <<loading, toast, lastOutcome, pendingCamera, orphanPending,
                   orphanLive, pendingBlobs>>
    /\ UNCHANGED <<relayVars, compressVars>>

\* a request of handleSubmit or handleSampleClick that has not settled
Request(source, file, stage, revoked) ==
    [source |-> source, file |-> file, stage |-> stage, revoked |-> revoked]

RemoveAt(seq, i) == [j \in 1..(Len(seq) - 1) |-> IF j < i THEN seq[j] ELSE seq[j + 1]]

\* new Error(message), as the handlers' catch blocks receive it
ErrorOutcome(message) == Outcome("Failure", Str(<<message>>), <<>>, NoAnalysis)

\* the size check of handleSubmit with the form's own limit
TooLargeToSubmit_PickLimit(file) == file.size > PickSizeLimit

\* file.size > 5 * 1024 * 1024
TooLargeToSubmit(file) == file.size > RequestSizeLimit

\* the catch block of handleSubmit and handleSampleClick, with every error
\* shown by the upload form
ErrorShown_NeverUnknown(o) == ApiError(o.message, FALSE, <<>>)

\* the catch block of handleSubmit and handleSampleClick: the error to show
ErrorShown(o) ==
    IF o.kind \in { "UnknownProductError", "LowConfidenceError" }
    THEN ApiError(o.message, TRUE, o.suggestions)
    ELSE ApiError(o.message, FALSE, <<>>)

\* result.imageUrl as ResultCard gets it: the sample's own image, or the
\* preview object URL handed to onSubmit, which the unmounting form revokes
\* when it is still the form's preview
ImageShown(req, res) ==
    IF req.source = "sample" THEN "sample"
    ELSE IF req.revoked THEN "revoked"
    ELSE IF View = "UploadForm" /\ ViewOf(res, error) # "UploadForm" /\ preview
    THEN "revoked"
    ELSE "live"

\* showToast in handleSubmit ("form") and handleSampleClick ("sample")
ToastShown(source, o) ==
    IF o.kind = "Result"
    THEN Toast(Str(<<IF source = "form"
                     THEN "Analysis complete! Your product has been evaluated."
                     ELSE "Sample product analyzed successfully!">>), "success")
    ELSE IF o.kind \in { "UnknownProductError", "LowConfidenceError" }
    THEN Toast(Str(<<"Unable to identify product from image">>), "error")
    ELSE Toast(o.message, "error")

\* the rest of handleSubmit or handleSampleClick once its await has settled
\* with outcome o: setResult or the catch block, then the finally block
Settle(i, o) ==
    /\ inflight' = RemoveAt(inflight, i)
    /\ lastOutcome' = o
    /\ loading' = FALSE
    /\ toast' = ToastShown(inflight[i].source, o)
    /\ IF o.kind = "Result"
       THEN AppRenders(o.data, ImageShown(inflight[i], o.data), error)
       ELSE AppRenders(result, resultImage, ErrorShown(o))

\* an Analyze button that stays enabled during an analysis
AnalyzeDisabled_Never == FALSE

\* the Analyze button's disabled={loading}
AnalyzeDisabled == loading

\* the Analyze button: UploadForm.handleSubmit, then App.handleSubmit up to
\* its first await
FormSubmit ==
    /\ View = "UploadForm"
    /\ ~showCamera
    /\ selectedFile # NoFile
    /\ preview
    /\ ~AnalyzeDisabled
    /\ IF TooLargeToSubmit(selectedFile)
       THEN /\ loading' = FALSE
            /\ lastOutcome' =
                  ErrorOutcome("Image size must be less than 5MB. Please compress your image and try again.")
            /\ AppRenders(NoAnalysis, "none", ErrorShown(lastOutcome'))
            /\ toast' = ToastShown("form", lastOutcome')
            /\ UNCHANGED inflight
       ELSE /\ loading' = TRUE
            /\ lastOutcome' = NoOutcome
            /\ AppRenders(NoAnalysis, "none", NoApiError)
            /\ inflight' = Append(inflight, Request("form", selectedFile, "encoding", FALSE))
            /\ UNCHANGED toast
    /\ UNCHANGED <<relayVars, compressVars>>

\* the size of a sample product's image
SampleFile == File(1024, TRUE)

\* a sample product's button: handleSampleClick up to its fetch
SampleClick ==
    /\ result = NoAnalysis
    /\ ~error.present
    /\ ~loading
    /\ loading' = TRUE
    /\ lastOutcome' = NoOutcome
    /\ AppRenders(NoAnalysis, "none", NoApiError)
    /\ inflight' = Append(inflight, Request("sample", SampleFile, "fetching", FALSE))
    /\ UNCHANGED toast
    /\ UNCHANGED <<relayVars, compressVars>>

\* handleSampleClick's fetch of the image settles
SampleFetched(i, ok) ==
    /\ i \in 1..Len(inflight)
    /\ inflight[i].stage = "fetching"
    /\ IF ok
       THEN /\ inflight' = [inflight EXCEPT ![i].stage = "encoding"]
            /\ UNCHANGED uiVarsButInflight
       ELSE Settle(i, ErrorOutcome("Failed to fetch"))
    /\ UNCHANGED <<relayVars, compressVars>>

\* analyzeSustainability: fileToBase64 settles; on success axios.post is sent
Encoded(i, ok) ==
    /\ i \in 1..Len(inflight)
    /\ inflight[i].stage = "encoding"
    /\ IF ok
       THEN /\ inflight' = [inflight EXCEPT ![i].stage = "posted"]
            /\ UNCHANGED uiVarsButInflight
       ELSE Settle(i, ErrorOutcome("Failed to analyze sustainability. Please try again."))
    /\ UNCHANGED <<relayVars, compressVars>>

\* replies and relay responses the client may receive
UiReplies ==
    { Reply("object", n, Num(72), c, Undef, SomeLabels, SomeText,
            List(<<StringAlt(SteelBottleName)>>), r) :
        n \in { Str(MugName), Str(UnknownName), Num(5) }, c \in { Num(49), Num(80) },
        r \in Reasons }

RelayResponses ==
    { SimpleSuccess(r) : r \in UiReplies } \cup { EnhancedCatch(err) : err \in AiErrors }

\* axios.post settles with the relay's response
Responded(i, resp) ==
    /\ i \in 1..Len(inflight)
    /\ inflight[i].stage = "posted"
    /\ Settle(i, analyzeSustainability(resp))
    /\ UNCHANGED <<relayVars, compressVars>>

\* axios.post fails without a response (error.code ERR_NETWORK)
NetworkFailed(i) ==
    /\ i \in 1..Len(inflight)
    /\ inflight[i].stage = "posted"
    /\ Settle(i, ErrorOutcome("Cannot connect to server. Please ensure the backend is running at BACKEND_URL"))
    /\ UNCHANGED <<relayVars, compressVars>>

\* ErrorAnalysis's retry button: handleReset
Retry ==
    /\ View = "ErrorAnalysis"
    /\ AppRenders(NoAnalysis, "none", NoApiError)
    /\ UNCHANGED <<loading, toast, inflight, lastOutcome>>
    /\ UNCHANGED <<relayVars, compressVars>>

\* ResultCard's button: handleAnalyzeAnother
AnalyzeAnother ==
    /\ View = "ResultCard"
    /\ AppRenders(NoAnalysis, "none", NoApiError)
    /\ UNCHANGED <<loading, toast, inflight, lastOutcome>>
    /\ UNCHANGED <<relayVars, compressVars>>

\* the toast's onClose: setToast(null)
CloseToast ==
    /\ toast # NoToast
    /\ toast' = NoToast
    /\ UNCHANGED <<loading, result, resultImage, error, inflight, lastOutcome>>
    /\ UNCHANGED formVars
    /\ UNCHANGED <<relayVars, compressVars>>

\* files the user picks or drops, and what canvas.toBlob hands over
PickedFiles ==
    { File(1024, TRUE), File(RequestSizeLimit, TRUE), File(RequestSizeLimit + 1, TRUE),
      File(PickSizeLimit + 1, TRUE), File(1024, FALSE) }

Blobs == { NoFile, File(2048, TRUE) }

AppInit ==
    /\ Init
    /\ relay = "enhanced"
    /\ apiKeyConfigured

AppNext ==
    \/ \E f \in PickedFiles : SelectFile(f)
    \/ StartCamera
    \/ CameraGranted
    \/ CameraDenied
    \/ \E granted \in BOOLEAN : OrphanCameraSettles(granted)
    \/ CancelCamera
    \/ CaptureClick
    \/ \E blob \in Blobs : BlobReady(blob)
    \/ ResetForm
    \/ FormSubmit
    \/ SampleClick
    \/ \E i \in 1..Len(inflight), ok \in BOOLEAN : SampleFetched(i, ok)
    \/ \E i \in 1..Len(inflight), ok \in BOOLEAN : Encoded(i, ok)
    \/ \E i \in 1..Len(inflight), resp \in RelayResponses : Responded(i, resp)
    \/ \E i \in 1..Len(inflight) : NetworkFailed(i)
    \/ Retry
    \/ AnalyzeAnother
    \/ CloseToast

AppSpec == AppInit /\ [][AppNext]_vars

(***************************************************************************)
(* compressAndOptimizeImage, one step per await.                           *)
(***************************************************************************)
MaxSizeKB == 4000
StartQuality == 85
QualityStep == 10
QualityFloor == 40

\* sizeInKB <= maxSizeKB, on a length in bytes
WithinBudget(size) == size <= MaxSizeKB * 1024

\* the encoder's output size at a quality
EncodedSize(in, q) ==
    IF q \in DOMAIN in.sizeAt THEN in.sizeAt[q] ELSE MaxSizeKB * 1024 + 1

\* the loop condition with no lower limit on the quality but zero
LoopContinues_FloorZero(size, q) == ~WithinBudget(size) /\ q > 0

\* optimizedBuffer.length / 1024 > maxSizeKB && quality > 40
LoopContinues(size, q) == ~WithinBudget(size) /\ q > QualityFloor

\* the call, up to the await of sharp(buffer).metadata()
CompressCall(in) ==
    /\ compressPc = "idle"
    /\ compressPc' = "metadata"
    /\ compressInput' = in
    /\ UNCHANGED <<quality, optimizedSize, passes, lastQuality, compressResult>>
    /\ UNCHANGED <<relayVars, uiVars>>

\* metadata() settles: the catch block, the early return, or the loop's start
CompressMetadata ==
    /\ compressPc = "metadata"
    /\ IF 0 \in compressInput.throwsAt \/ WithinBudget(compressInput.size)
       THEN /\ compressResult' = "original"
            /\ compressPc' = "returned"
            /\ UNCHANGED <<quality, optimizedSize>>
       ELSE /\ quality' = StartQuality
            /\ optimizedSize' = compressInput.size
            /\ compressPc' = "loop"
            /\ UNCHANGED compressResult
    /\ UNCHANGED <<compressInput, passes, lastQuality>>
    /\ UNCHANGED <<relayVars, uiVars>>

\* one pass of the while loop: toBuffer() settles, or throws into the catch
CompressPass ==
    /\ compressPc = "loop"
    /\ LoopContinues(optimizedSize, quality)
    /\ IF passes + 1 \in compressInput.throwsAt
       THEN /\ compressResult' = "original"
            /\ compressPc' = "returned"
            /\ UNCHANGED <<quality, optimizedSize, passes, lastQuality>>
       ELSE /\ optimizedSize' = EncodedSize(compressInput, quality)
            /\ lastQuality' = quality
            /\ quality' = quality - QualityStep
            /\ passes' = passes + 1
            /\ UNCHANGED <<compressPc, compressResult>>
    /\ UNCHANGED compressInput
    /\ UNCHANGED <<relayVars, uiVars>>

\* the loop ends: the JPEG data URL of optimizedBuffer is returned
CompressReturn ==
    /\ compressPc = "loop"
    /\ ~LoopContinues(optimizedSize, quality)
    /\ compressResult' = "reencoded"
    /\ compressPc' = "returned"
    /\ UNCHANGED <<compressInput, quality, optimizedSize, passes, lastQuality>>
    /\ UNCHANGED <<relayVars, uiVars>>

\* the qualities the encoder is asked for, and images around the budget
PassQualities == { 45, 55, 65, 75, 85 }

CompressInputs ==
    { CompressInput(size, sizeAt, throwsAt) :
        size \in { 1024, MaxSizeKB * 1024, MaxSizeKB * 1024 + 1 },
        sizeAt \in [PassQualities -> { MaxSizeKB * 1024, MaxSizeKB * 1024 + 1 }],
        throwsAt \in { {} } \cup { { k } : k \in 0..5 } }

CompressInit ==
    /\ Init
    /\ relay = "enhanced"
    /\ apiKeyConfigured

CompressNext ==
    \/ \E in \in CompressInputs : CompressCall(in)
    \/ CompressMetadata
    \/ CompressPass
    \/ CompressReturn

CompressSpec == CompressInit /\ [][CompressNext]_vars /\ WF_vars(CompressNext)

(***************************************************************************)
(* Properties.                                                             *)
(***************************************************************************)
\* the enhanced relay answered the current request with a success envelope
EnhancedAnswered == relay = "enhanced" /\ pc = "responded" /\ response.status = 200

InScoreRange(v) == v.kind = "number" /\ 0 <= v.num /\ v.num <= 100

\* C1: the record validateAndEnhanceAnalysis returns has a sustainabilityScore
\* that is a number between 0 and 100, whatever the model supplied (in range,
\* out of range, not a number, or nothing).
C1_ScoreInRange ==
    EnhancedAnswered => InScoreRange(response.analysis.sustainabilityScore)

\* C2: the record validateAndEnhanceAnalysis returns, and the metadata the
\* analyze route adds, carry a confidence that is a number between 0 and 100,
\* also when the model supplied one below 0 or above 100.
C2_ConfidenceInRange ==
    EnhancedAnswered =>
        /\ InScoreRange(response.analysis.confidence)
        /\ InScoreRange(response.analysis.metadata.confidence)

\* C3: for every shape of the reply's alternatives field the enhanced relay's
\* normalisation returns, without throwing, a non-empty list whose entries
\* all have a name and a description, and no entry carries a purchase link
\* the model supplied.
C3_AlternativesTotal ==
    (relay = "enhanced" /\ pc = "responded" /\ reply.kind = "object") =>
        /\ response.status = 200
        /\ IsArray(response.analysis.alternatives)
        /\ Len(response.analysis.alternatives.items) > 0
        /\ \A i \in 1..Len(response.analysis.alternatives.items) :
             LET alt == response.analysis.alternatives.items[i]
             IN /\ alt.name.kind = "string" /\ alt.name.str # <<>>
                /\ alt.description.kind = "string" /\ alt.description.str # <<>>
                /\ \A j \in 1..Len(reply.alternatives.items) :
                     Truthy(reply.alternatives.items[j].buyLink) =>
                        alt.buyLink # reply.alternatives.items[j].buyLink

\* the name ResultCard reads from an entry of result.alternatives
AlternativeName(alt) == IF alt.kind = "string" THEN Str(alt.str) ELSE alt.name

\* C4: every alternative ResultCard renders has the platformLinks that
\* generatePlatformLinks gives for its name, whatever link fields the
\* incoming entry carried.
C4_LinksDerivedFromName ==
    (pc = "rendered" /\ ~rendered.crashed) =>
        \A i \in 1..Len(rendered.alternatives) :
            rendered.alternatives[i].platformLinks.links =
                generatePlatformLinks(AlternativeName(outcome.data.alternatives.items[i])).links

\* C5: generatePlatformLinks returns, for every name ResultCard passes it,
\* exactly three entries for flipkart, amazon and meesho in that order, and
\* never throws.
C5_LinksTotal ==
    (pc = "rendered" /\ IsArray(outcome.data.alternatives)) =>
        \A i \in 1..Len(outcome.data.alternatives.items) :
            LET alt == outcome.data.alternatives.items[i]
                g == generatePlatformLinks(AlternativeName(alt))
            IN alt.kind # "null" =>
                 /\ ~g.threw
                 /\ Len(g.links) = 3
                 /\ g.links[1].platform = "flipkart"
                 /\ g.links[2].platform = "amazon"
                 /\ g.links[3].platform = "meesho"

\* the client's gate ran on a success response
Gated == pc \in {"gated", "rendered"} /\ response.status = 200

\* the product name of the gated response, lower-cased, is one of the
\* unknown-product names
UnknownNamed ==
    LET lower == ToLowerCase(response.analysis.productName.str)
    IN \/ \E i \in 0..(Len(lower) - 7) :
            SubSeq(lower, i + 1, i + 7) = <<"u", "n", "k", "n", "o", "w", "n">>
       \/ lower = ToLowerCase(UnidentifiedName)
       \/ lower = ToLowerCase(UnclearName)

StringNamed == response.analysis.productName.kind = "string"

C7_LowConfidenceBoundary ==
    (Gated /\ StringNamed /\ ~UnknownNamed) =>
        LET c == response.analysis.confidence
        IN /\ (c.kind = "number" /\ 0 <= c.num /\ c.num < 50) =>
                outcome.kind = "LowConfidenceError"
           /\ ((c.kind = "number" /\ c.num >= 50) \/ c = Undef) =>
                outcome.kind = "Result"

BlurReport(c) ==
    [quality |-> "blur", confidence |-> c,
     warnings |-> <<"Image appears blurry. Please upload a clearer photo.">>,
     metadata |-> TRUE]

EnvelopeOk(img) ==
    /\ img.type = "string"
    /\ img.mime \in {"jpeg", "jpg", "png", "gif", "webp"}
    /\ img.base64Marker

\* a request was received and nothing but an error went back for it
RejectedEarly ==
    /\ pc \in {"responded", "gated"}
    /\ ~response.success
    /\ imageQualityData = NoReport
    /\ optimizedImage = "none"
    /\ aiCalls = 0

\* C10 as stated: an external AI call is made only for a request whose image
\* matches the envelope and only with the API key configured, and every
\* request failing the image checks is answered with a 400 error before
\* quality estimation, optimization or any external call.
C10_Original ==
    /\ aiCalls > 0 => EnvelopeOk(image) /\ apiKeyConfigured
    /\ (pc # "idle" /\ ~EnvelopeOk(image)) => RejectedEarly /\ response.status = 400

\* C10 as amended: the same, except that a request whose image is present
\* but malformed is answered with the 500 configuration error when the API
\* key is not configured, because the key is checked before the format.
C10_ImageChecksBeforeCall ==
    /\ aiCalls > 0 => EnvelopeOk(image) /\ apiKeyConfigured
    /\ (pc # "idle" /\ ~EnvelopeOk(image)) =>
          /\ RejectedEarly
          /\ response.status =
                IF image.type \notin {"undefined", "emptyString"} /\ ~apiKeyConfigured
                THEN 500 ELSE 400

C10_Witness ==
    /\ pc = "responded"
    /\ image.type = "string"
    /\ image.mime = "bmp"
    /\ apiKeyConfigured
    /\ response.status = 400
    /\ aiCalls = 0

\* the closing brace that balances the opening brace at i, 0 when none does
MatchingClose(text, i) ==
    LET Opens(j) == Cardinality({ k \in i..j : text[k] = OpenBrace })
        Closes(j) == Cardinality({ k \in i..j : text[k] = CloseBrace })
        balanced == { j \in i..Len(text) : Opens(j) = Closes(j) }
    IN IF balanced = {} THEN 0 ELSE CHOOSE j \in balanced : \A k \in balanced : j <= k

\* where the balanced brace pairs of the text that hold a JSON object start
BalancedObjects(text) ==
    { i \in 1..Len(text) :
        /\ text[i] = OpenBrace
        /\ MatchingClose(text, i) # 0
        /\ ~JSONparse(SubSeq(text, i, MatchingClose(text, i))).threw }

FirstBalancedObject(text) ==
    LET first == CHOOSE i \in BalancedObjects(text) : \A k \in BalancedObjects(text) : i <= k
    IN JSONparse(SubSeq(text, first, MatchingClose(text, first))).value

\* a relay has received the model's reply text and answered
ReplyHandled == pc = "responded" /\ aiResponse # NoText

\* C11: when the reply text is not one JSON value and holds a balanced JSON
\* object, parseAIResponse returns the parse of the first such object.
C11_FirstBalancedObject ==
    ( /\ ReplyHandled
      /\ JSONparse(aiResponse).threw
      /\ BalancedObjects(aiResponse) # {} ) =>
        reply = FirstBalancedObject(aiResponse)

\* C12: in the enhanced relay a reply text that cannot be parsed, or that
\* parses to a scalar, null or an array, ends in an error response and never
\* in a success envelope.
C12_NoFabricatedResult ==
    (relay = "enhanced" /\ ReplyHandled /\ reply.kind # "object") =>
        /\ ~response.success
        /\ response.status >= 400
        /\ response.analysis = NoAnalysis

IsNonEmptyString(v) == v.kind = "string" /\ v.str # <<>>

\* C13: for every value parseAIResponse returns, validateAndEnhanceAnalysis
\* returns, without throwing, a record whose required fields all have their
\* declared shape, with a non-empty string as productName.
C13_FieldCompletionTotal ==
    (relay = "enhanced" /\ ReplyHandled /\ reply # NoReply) =>
        /\ response.status = 200
        /\ LET a == response.analysis
           IN /\ IsNonEmptyString(a.productName)
              /\ a.sustainabilityScore.kind = "number"
              /\ a.confidence.kind = "number"
              /\ IsArray(a.ecoLabels)
              /\ IsNonEmptyString(a.recyclability)
              /\ IsNonEmptyString(a.carbonFootprint)
              /\ IsNonEmptyString(a.waterFootprint)
              /\ IsNonEmptyString(a.materialComposition)
              /\ IsNonEmptyString(a.lifespan)
              /\ IsNonEmptyString(a.energyProduction)
              /\ IsArray(a.alternatives)

\* C14: every run of validateAndEnhanceAnalysis on the parsed reply and the
\* quality report of the request returns the record this run returned,
\* the score of every alternative included.
C14_Deterministic ==
    (relay = "enhanced" /\ ReplyHandled /\ reply # NoReply) =>
        \A rnd \in [1..MaxAlts -> RandomFloors] :
            EnhancedSuccess(reply, imageQualityData, rnd) = response

\* the response the claim's table gives for a failure of the external call
MappedFailure(err) ==
    IF err.status \in {401, 403} THEN <<500, "API authentication failed">>
    ELSE IF err.status = 429 THEN <<429, "Rate limit exceeded">>
    ELSE IF err.status = 400 THEN <<400, "Invalid request">>
    ELSE IF err.status = 413 THEN <<413, "Image too large">>
    ELSE IF err.code \in {"ECONNABORTED", "ETIMEDOUT"} THEN <<504, "Request timeout">>
    ELSE IF err.code \in {"ENOTFOUND", "ECONNREFUSED"} THEN <<503, "Service unavailable">>
    ELSE <<500, "Analysis failed">>

\* C17: the enhanced relay answers each failure of the external AI call with
\* the response of the table (401/403 -> 500, 429 -> 429, 400 -> 400,
\* 413 -> 413, timeouts -> 504, unreachable -> 503, anything else -> 500),
\* and the response sent for a request is not replaced by another one.
C17_FailureMapping ==
    /\ [](( relay = "enhanced" /\ aiError # NoError ) =>
            /\ pc \in {"responded", "gated"}
            /\ ~response.success
            /\ <<response.status, response.error>> = MappedFailure(aiError))
    /\ [][ (relay = "enhanced" /\ pc = "responded" /\ pc' # "idle") =>
               response' = response ]_vars

C17_Witness ==
    /\ relay = "enhanced"
    /\ pc = "responded"
    /\ aiError = ProviderError(429)
    /\ response.status = 429

\* C19: a failure inside analyzeImageQuality gives the report unknown / 75 /
\* one warning / no metadata, and the route goes on with it to optimization
\* and the external AI call.
C19_EstimatorFailureIsSoft ==
    ( /\ relay = "enhanced"
      /\ pc \notin {"idle", "quality"}
      /\ EnhancedValidation(image, apiKeyConfigured) = NoResponse
      /\ ~image.decodable ) =>
        /\ imageQualityData.quality = "unknown"
        /\ imageQualityData.confidence = 75
        /\ Len(imageQualityData.warnings) = 1
        /\ ~imageQualityData.metadata
        /\ pc = "optimize" \/ aiCalls = 1
        /\ (response.success /\ pc = "responded") => response.imageQuality = imageQualityData

C19_Witness ==
    /\ relay = "enhanced"
    /\ ~image.decodable
    /\ imageQualityData.quality = "unknown"
    /\ pc = "aiCall"
    /\ aiCalls = 1

\* C20: the estimator's tag follows the table: blurry -> blur with
\* confidence 50, also when the image is too small; not blurry and too small
\* -> poor with confidence at most 60; too large only adds a warning;
\* otherwise good with confidence 90.
C20_QualityTable ==
    (relay = "enhanced" /\ imageQualityData # NoReport /\ image.decodable) =>
        LET iq == imageQualityData
            base == [image EXCEPT !.tooLarge = FALSE]
        IN /\ image.blurry => iq.quality = "blur" /\ iq.confidence = 50
           /\ (~image.blurry /\ image.tooSmall) => iq.quality = "poor" /\ iq.confidence <= 60
           /\ (~image.blurry /\ ~image.tooSmall) => iq.quality = "good" /\ iq.confidence = 90
           /\ image.tooLarge =>
                /\ iq.quality = analyzeImageQuality(base).quality
                /\ iq.confidence = analyzeImageQuality(base).confidence
                /\ Len(iq.warnings) = Len(analyzeImageQuality(base).warnings) + 1


\* a step on which the form gives the camera up: Cancel, a capture that
\* produced a photo, Reset, or the form's unmount
CameraExitStep ==
    \/ CancelCamera
    \/ \E blob \in Blobs \ { NoFile } : BlobReady(blob)
    \/ ResetForm
    \/ (View = "UploadForm" /\ ViewOf(result', error') # "UploadForm")

\* no other getUserMedia call is pending and no other stream is live
NoOtherAcquisition == pendingCamera = 0 /\ orphanPending = 0 /\ orphanLive = 0

\* C15: when the form leaves the camera by Cancel, by a capture that produced
\* a photo, by Reset or by unmounting, and no other acquisition is under way,
\* no stream is live afterwards.
C15_CameraReleased ==
    [][ (CameraExitStep /\ NoOtherAcquisition) => LiveStreams' = 0 ]_vars

\* C15 witness: a photo taken with the camera is selected, the camera view
\* is closed and no stream is live.
C15_Witness ==
    /\ selectedFile \in Blobs \ { NoFile }
    /\ ~showCamera
    /\ streamRef = "null"
    /\ NoOtherAcquisition
    /\ LiveStreams = 0

SizeRejectionMessage ==
    Str(<<"Image size must be less than 5MB. Please compress your image and try again.">>)

\* C16: submitting a file of more than 5 * 1024 * 1024 bytes starts no
\* request and shows the size error; submitting a smaller file starts a
\* request for it; no request under way carries a file above the limit.
C16_SizeCheckedBeforeRequest ==
    /\ [](\A i \in 1..Len(inflight) : inflight[i].file.size <= 5 * 1024 * 1024)
    /\ [][ FormSubmit =>
             IF selectedFile.size > 5 * 1024 * 1024
             THEN /\ inflight' = inflight
                  /\ ~loading'
                  /\ error' = ApiError(SizeRejectionMessage, FALSE, <<>>)
                  /\ toast' = Toast(SizeRejectionMessage, "error")
             ELSE /\ inflight' = Append(inflight, Request("form", selectedFile, "encoding", FALSE))
                  /\ loading' ]_vars

\* C16 witness: a file above the limit was submitted; the size error is
\* shown and nothing is under way.
C16_Witness ==
    /\ selectedFile.size > 5 * 1024 * 1024
    /\ error = ApiError(SizeRejectionMessage, FALSE, <<>>)
    /\ toast = Toast(SizeRejectionMessage, "error")
    /\ inflight = <<>>
    /\ ~loading

\* an analysis ends on this step
AnalysisEnds == Len(inflight') < Len(inflight)

\* C18: when an analysis ends in the unknown-product outcome, result is
\* null, error carries isUnknownProduct and the outcome's message, and
\* ErrorAnalysis is the view; while ErrorAnalysis is the view result stays
\* null, and only the retry leaves that view.
C18_UnknownProductShowsErrorAnalysis ==
    /\ [](View = "ErrorAnalysis" => result = NoAnalysis)
    /\ [][ (AnalysisEnds /\ lastOutcome'.kind = "UnknownProductError") =>
             /\ result' = NoAnalysis
             /\ error' = ApiError(lastOutcome'.message, TRUE, lastOutcome'.suggestions)
             /\ View' = "ErrorAnalysis" ]_vars
    /\ [][ (View = "ErrorAnalysis" /\ View' # "ErrorAnalysis") => Retry ]_vars

\* C18 witness: an analysis ended in the unknown-product outcome and
\* ErrorAnalysis is shown with the reason the reply gave.
C18_Witness ==
    /\ lastOutcome.kind = "UnknownProductError"
    /\ View = "ErrorAnalysis"
    /\ error.message = Str(<<"Image is too blurry">>)
    /\ result = NoAnalysis


\* the passes the loop should make: up to the first quality whose output is
\* within the budget, five at most
ExpectedPasses(in) ==
    LET fits == { k \in 1..5 : EncodedSize(in, 85 - 10 * (k - 1)) <= 4000 * 1024 }
    IN IF fits = {} THEN 5 ELSE CHOOSE k \in fits : \A j \in fits : k <= j

\* some step of the call throws
CompressThrows(in) ==
    \/ 0 \in in.throwsAt
    \/ in.size > 4000 * 1024 /\ in.throwsAt \cap (1..ExpectedPasses(in)) # {}

\* C21: compressAndOptimizeImage terminates; it returns the original image
\* when that is at or under 4000 KB or when a step throws; otherwise it
\* returns the output of the pass at which the loop stopped, the first of
\* the passes at quality 85, 75, ... whose output is within the budget or the
\* fifth pass, and no pass uses a quality below 40.
C21_CompressTerminates ==
    /\ [](passes <= 5 /\ (passes > 0 => lastQuality >= 40))
    /\ [](compressPc = "returned" =>
            IF CompressThrows(compressInput) \/ compressInput.size <= 4000 * 1024
            THEN compressResult = "original"
            ELSE /\ compressResult = "reencoded"
                 /\ passes = ExpectedPasses(compressInput)
                 /\ lastQuality = 85 - 10 * (passes - 1)
                 /\ optimizedSize = EncodedSize(compressInput, lastQuality))
    /\ (compressPc = "metadata" ~> compressPc = "returned")

\* C21 witness: five passes were made, the last at quality 45, and the
\* result, still over the budget, was returned.
C21_Witness ==
    /\ compressPc = "returned"
    /\ compressResult = "reencoded"
    /\ passes = 5
    /\ lastQuality = 45
    /\ optimizedSize > 4000 * 1024


Clamp(v) == IF v < 0 THEN 0 ELSE IF v > 100 THEN 100 ELSE v

\* C22: for every integer v the model supplies as sustainabilityScore, the
\* enhanced relay returns min(max(v, 0), 100): below 0 gives 0, above 100
\* gives 100, and a value in 0..100 is returned unchanged.
C22_ScoreClamped ==
    (EnhancedAnswered /\ reply.kind = "object" /\ reply.sustainabilityScore.kind = "number") =>
        response.analysis.sustainabilityScore = Num(Clamp(reply.sustainabilityScore.num))


\* the simple relay answered the current request with a success envelope
SimpleAnswered == relay = "simple" /\ pc = "responded" /\ response.status = 200

\* C23: for every parsed object the record the simple relay's
\* validateAnalysisResponse returns has a sustainabilityScore between 0 and
\* 100, an ecoLabels list and an alternatives list, with all required fields
\* present and with some required field missing.
C23_SimpleRelayRepairs ==
    (SimpleAnswered /\ reply.kind = "object") =>
        /\ InScoreRange(response.analysis.sustainabilityScore)
        /\ IsArray(response.analysis.ecoLabels)
        /\ IsArray(response.analysis.alternatives)
        /\ RequiredFieldMissing(reply) => response.analysis.alternatives.items # <<>>

\* C24: through the enhanced relay and the client gate, an
\* UnknownProductError carries the reason string of the model's reply as its
\* message, and the fixed fallback sentence only when the reply has no reason.
C24_ReasonReachesUser ==
    (relay = "enhanced" /\ pc = "gated" /\ outcome.kind = "UnknownProductError"
       /\ reply.kind = "object" /\ reply.productName.kind = "string"
       /\ IsUnknownProductName(reply.productName.str)) =>
        outcome.message = IF reply.reason.kind = "string" /\ reply.reason.str # <<>>
                          THEN reply.reason
                          ELSE UnknownProductFallbackMessage


\* the query as the claim has it in the Amazon URL: lower-cased, each run of
\* whitespace one literal "+", every other character percent-encoded
PlusJoinedQuery(query) ==
    LET q == ReplaceWhitespaceRuns(ToLowerCase(query), " ")
    IN [i \in 1..Len(q) |-> IF q[i] = " " THEN "+" ELSE EncodeChar(q[i])]

HasElement(s, c) == \E i \in 1..Len(s) : s[i] = c

\* C25: for every alternative's name the Amazon URL carries the lower-cased
\* query '<name> eco friendly sustainable' with each run of whitespace as one
\* literal '+', and the Flipkart and Meesho URLs carry the spaces as %20.
C25_AmazonPlusJoined ==
    (pc = "rendered" /\ IsArray(outcome.data.alternatives)) =>
        \A i \in 1..Len(outcome.data.alternatives.items) :
            LET alt == outcome.data.alternatives.items[i]
                query == ToStringJS(AlternativeName(alt)) \o EcoQualifier
                g == generatePlatformLinks(AlternativeName(alt))
            IN (alt.kind # "null" /\ ~g.threw) =>
                 /\ g.links[2].url = <<"https://www.amazon.in/s?k=">> \o PlusJoinedQuery(query)
                 /\ HasElement(g.links[1].url, "%20") /\ ~HasElement(g.links[1].url, " ")
                 /\ HasElement(g.links[3].url, "%20") /\ ~HasElement(g.links[3].url, " ")


\* C26: the hard quality gate is reachable: some image the route accepts
\* (blurry, too small, too large, unreadable, in any combination) gets from
\* analyzeImageQuality a report that the gate rejects, quality blur with a
\* confidence below 40.
C26_GateReachable ==
    \E img \in Images :
        /\ EnhancedValidation(img, TRUE) = NoResponse
        /\ analyzeImageQuality(img).quality = "blur"
        /\ analyzeImageQuality(img).confidence < 40


\* C27: while ResultCard shows the result of an uploaded or captured file,
\* the object URL in result.imageUrl has not been revoked.
C27_ImageUrlLive ==
    (View = "ResultCard" /\ resultImage # "sample") => resultImage = "live"


\* a request of the form is in flight and the form holds no file: Reset was
\* pressed after the submission
ResetWhileInFlight ==
    /\ Len(inflight) = 1
    /\ inflight[1].source = "form"
    /\ selectedFile = NoFile

\* C28: when Reset was pressed while a request was in flight, the late
\* outcome of that request is not shown: result and error are null after it
\* arrives.
C28_ResetDiscardsLateOutcome ==
    [][ (ResetWhileInFlight /\ AnalysisEnds) =>
            (result' = NoAnalysis /\ error' = NoApiError) ]_vars


\* C29: under every interleaving of the camera acquisition with the other
\* events at most one stream is live, and none is live while no UploadForm
\* is mounted.
C29_AtMostOneStream ==
    /\ LiveStreams <= 1
    /\ View # "UploadForm" => LiveStreams = 0

\* C30: in every reachable state of App result and error are not both
\* non-null, at most one analysis request is in flight, and a request is in
\* flight only while loading is true.
C30_OneOutcomeOneRequest ==
    /\ ~(result # NoAnalysis /\ error # NoApiError)
    /\ Len(inflight) <= 1
    /\ inflight # <<>> => loading

\* C30 witness: a file is selected in the form while a sample's analysis is
\* in flight, after an earlier analysis had ended in an error.
C30_Witness ==
    /\ Len(inflight) = 1
    /\ inflight[1].source = "sample"
    /\ inflight[1].stage = "posted"
    /\ selectedFile # NoFile
    /\ lastOutcome = NoOutcome
    /\ toast.type = "error"
    /\ error = NoApiError
    /\ result = NoAnalysis

====
